---- MODULE Spec2Model ----
(***************************************************************************)
(* Library synchronisation and activation reconciliation of fontman:      *)
(* the LibraryStore (app/src/main/library.ts) and the main-process        *)
(* handlers that drive it (main process, second revision).                *)
(*                                                                         *)
(* Strings are kept in the state as TLA+ strings; every string operation  *)
(* of the code (startsWith, extname, toLowerCase, SQL LIKE) is computed   *)
(* on the character sequence Chars(s).                                     *)
(*                                                                         *)
(* The file system is not part of the state: it changes behind the        *)
(* program's back, so each readdir, stat and scanFile answer is chosen    *)
(* anew among the answers the universe allows.  A handler that awaits is  *)
(* a task that advances one await at a time; a scan or change handler is  *)
(* started when no other one is in flight, faces:setActivated calls and   *)
(* the clock interleave with every step.                                  *)
(***************************************************************************)
EXTENDS Integers, Sequences, FiniteSets, TLC

(***************************************************************************)
(* Bounds of the model                                                     *)
(***************************************************************************)
MaxClock == 1
MaxFaceId == 3
MaxFacetValueId == 3
MaxSourceId == 2
MaxLines == 2

(***************************************************************************)
(* Strings                                                                 *)
(***************************************************************************)
Chars(s) ==
  CASE s = "" -> << >>
    [] s = "/a" -> <<"/", "a">>
    [] s = "/ab" -> <<"/", "a", "b">>
    [] s = "/a/_" -> <<"/", "a", "/", "_">>
    [] s = "/a/d" -> <<"/", "a", "/", "d">>
    [] s = "/a/d/w.ttf" -> <<"/", "a", "/", "d", "/", "w", ".", "t", "t", "f">>
    [] s = "/a/v.otf" -> <<"/", "a", "/", "v", ".", "o", "t", "f">>
    [] s = "/a/x.ttf" -> <<"/", "a", "/", "x", ".", "t", "t", "f">>
    [] s = "/a/y.woff" -> <<"/", "a", "/", "y", ".", "w", "o", "f", "f">>
    [] s = "/ab/z.OTF" -> <<"/", "a", "b", "/", "z", ".", "O", "T", "F">>
    [] s = ".otf" -> <<".", "o", "t", "f">>
    [] s = ".ttf" -> <<".", "t", "t", "f">>
    [] s = ".ttc" -> <<".", "t", "t", "c">>
    [] s = ".otc" -> <<".", "o", "t", "c">>
    [] s = ".woff" -> <<".", "w", "o", "f", "f">>
    [] s = ".woff2" -> <<".", "w", "o", "f", "f", "2">>
    [] s = "Fo" -> <<"F", "o">>
    [] s = " fo" -> <<" ", "f", "o">>
    [] s = "fo" -> <<"f", "o">>
    [] s = "Gu" -> <<"G", "u">>
    [] s = "gu" -> <<"g", "u">>

KnownStrings ==
  {"", "/a", "/ab", "/a/_", "/a/d", "/a/d/w.ttf", "/a/v.otf", "/a/x.ttf", "/a/y.woff",
   "/ab/z.OTF", ".otf", ".ttf", ".ttc", ".otc", ".woff", ".woff2",
   "Fo", " fo", "fo", "Gu", "gu"}

\* the string whose characters are t
Str(t) == CHOOSE s \in KnownStrings : Chars(s) = t

LowerChar(c) ==
  CASE c = "F" -> "f"
    [] c = "G" -> "g"
    [] c = "O" -> "o"
    [] c = "T" -> "t"
    [] OTHER -> c

toLowerCase(t) == [i \in DOMAIN t |-> LowerChar(t[i])]

IsSpace(c) == c = " "

RECURSIVE trimStart(_)
trimStart(t) == IF t # << >> /\ IsSpace(Head(t)) THEN trimStart(Tail(t)) ELSE t

RECURSIVE trimEnd(_)
trimEnd(t) ==
  IF t # << >> /\ IsSpace(t[Len(t)]) THEN trimEnd(SubSeq(t, 1, Len(t) - 1)) ELSE t

trim(t) == trimEnd(trimStart(t))

normalizeFamilyKey(value) == Str(toLowerCase(trim(Chars(value))))

startsWith(s, prefix) ==
  LET t == Chars(s)
      p == Chars(prefix)
  IN  Len(p) <= Len(t) /\ SubSeq(t, 1, Len(p)) = p

LastIndexOf(t, c) ==
  LET I == {i \in DOMAIN t : t[i] = c}
  IN  IF I = {} THEN 0 ELSE CHOOSE i \in I : \A j \in I : j <= i

\* node:path extname, then String.toLowerCase
extname(s) ==
  LET t == Chars(s)
      base == LastIndexOf(t, "/") + 1
      dot == LastIndexOf(t, ".")
  IN  IF dot = 0 \/ dot <= base THEN << >> ELSE SubSeq(t, dot, Len(t))

extOf(s) == Str(toLowerCase(extname(s)))

\* SQLite LIKE: % matches any run, _ any one character, letters fold case
RECURSIVE SqlLike(_, _)
SqlLike(pat, t) ==
  IF pat = << >> THEN t = << >>
  ELSE IF Head(pat) = "%"
       THEN SqlLike(Tail(pat), t) \/ (t # << >> /\ SqlLike(pat, Tail(t)))
       ELSE /\ t # << >>
            /\ (Head(pat) = "_" \/ LowerChar(Head(pat)) = LowerChar(Head(t)))
            /\ SqlLike(Tail(pat), Tail(t))

\* path LIKE `${pathPrefix}%`
likePrefix(path, pathPrefix) == SqlLike(Chars(pathPrefix) \o <<"%">>, Chars(path))

SUPPORTED_EXTENSIONS == {".otf", ".ttf", ".ttc", ".otc", ".woff", ".woff2"}
INSTALLABLE_EXTENSIONS == {".otf", ".ttf", ".ttc", ".otc"}
PREVIEWABLE_EXTENSIONS == {".otf", ".ttf", ".ttc", ".otc", ".woff", ".woff2"}

(***************************************************************************)
(* The file system and the introspection collaborator.  Files come, go    *)
(* and change behind the program's back at any time, so every read of the *)
(* file system (readdir, stat) and every scanFile request returns any of  *)
(* the answers the universe below allows.                                  *)
(***************************************************************************)
Dirs == {"/a", "/a/d", "/ab"}
Files == {"/a/d/w.ttf", "/a/v.otf", "/a/x.ttf", "/a/y.woff", "/ab/z.OTF"}
\* paths a change notification can name
EventPaths == Files \cup Dirs \cup {"/a/_"}

\* the order in which walkDirectory lists the files
FileOrder == <<"/a/d/w.ttf", "/a/v.otf", "/a/x.ttf", "/a/y.woff", "/ab/z.OTF">>

\* path lies in the directory tree below dir
underDir(path, dir) ==
  LET t == Chars(path)
      p == Chars(dir) \o <<"/">>
  IN  Len(p) <= Len(t) /\ SubSeq(t, 1, Len(p)) = p

\* fs.stat(f) of a file that exists
StatsOf(f) ==
  IF f = "/a/d/w.ttf" THEN {[size |-> 1, mtimeMs |-> 1], [size |-> 1, mtimeMs |-> 2]}
  ELSE {[size |-> 1, mtimeMs |-> 1]}

\* the helper's scanFile(f): the faces CoreText reports, none when unreadable
FacesOf(f) ==
  CASE f = "/a/x.ttf" ->
         {<< [index |-> 0, familyName |-> "Fo", styleName |-> "Regular"],
             [index |-> 1, familyName |-> "Fo", styleName |-> "Bold"] >>,
          << [index |-> 0, familyName |-> " fo", styleName |-> "Regular"] >>}
    [] f = "/a/y.woff" ->
         {<< [index |-> 0, familyName |-> "Gu", styleName |-> "Regular"] >>}
    [] f = "/a/v.otf" ->
         {<< [index |-> 0, familyName |-> "Fo", styleName |-> "Regular"] >>}
    [] f = "/a/d/w.ttf" ->
         {<< [index |-> 0, familyName |-> "Gu", styleName |-> "Regular"] >>}
    [] f = "/ab/z.OTF" ->
         {<< [index |-> 0, familyName |-> "Fo", styleName |-> "Regular"] >>, << >>}

\* the parts of the universe a specification explores
WorldA == {"/a", "/a/x.ttf", "/a/y.woff"}
WorldTime == {"/a", "/a/v.otf", "/a/y.woff"}
WorldNested == {"/a", "/a/d", "/a/d/w.ttf"}
WorldPrefix == {"/a", "/ab", "/a/_", "/a/x.ttf", "/ab/z.OTF"}
WorldQueue == {"/a", "/a/v.otf"}

(***************************************************************************)
(* LibraryStore                                                            *)
(***************************************************************************)
\* the null / undefined of the code
null == [isNull |-> TRUE]

RECURSIVE sortById(_)
sortById(rows) ==
  IF rows = {} THEN << >>
  ELSE LET m == CHOOSE r \in rows : \A q \in rows : r.id <= q.id
       IN  <<m>> \o sortById(rows \ {m})

pathsOf(rows) == LET s == sortById(rows) IN [i \in DOMAIN s |-> s[i].path]

Range(s) == {s[i] : i \in DOMAIN s}

\* the tables created by initializeSchema, empty
EmptyDb ==
  [sources |-> {}, font_files |-> {}, families |-> {}, faces |-> {},
   facet_columns |-> {}, facet_values |-> {}, family_facet_values |-> {},
   seq |-> [sources |-> 0, font_files |-> 0, families |-> 0, faces |-> 0,
            facet_columns |-> 0, facet_values |-> 0]]

\* addSource inserting a second row when the path is stored already
addSourceInsertsAgain(d, path, now) ==
  [d EXCEPT
     !.sources = @ \cup {[id |-> d.seq.sources + 1, path |-> path,
                          is_enabled |-> 1, created_at |-> now]},
     !.seq.sources = @ + 1]

addSource(d, path, now) ==
  IF \E s \in d.sources : s.path = path
  THEN [d EXCEPT !.sources =
          {IF s.path = path THEN [s EXCEPT !.is_enabled = 1] ELSE s : s \in d.sources}]
  ELSE [d EXCEPT
          !.sources = @ \cup {[id |-> d.seq.sources + 1, path |-> path,
                               is_enabled |-> 1, created_at |-> now]},
          !.seq.sources = @ + 1]

\* DELETE FROM sources WHERE id = ?, foreign_keys being ON: the statement
\* fails while a font_files row references the source
removeSource(d, id) ==
  IF \E f \in d.font_files : f.source_id = id
  THEN [db |-> d, threw |-> TRUE]
  ELSE [db |-> [d EXCEPT !.sources = {src \in @ : src.id # id}], threw |-> FALSE]

sourceByPath(d, path) == CHOOSE s \in d.sources : s.path = path

listSourcesRaw(d) == {s \in d.sources : s.is_enabled = 1}

findSourceForPath(d, filePath) ==
  LET matches == {s \in listSourcesRaw(d) : startsWith(filePath, s.path)}
  IN  IF matches = {} THEN null
      ELSE LET best == CHOOSE s \in matches :
                         \A q \in matches : Len(Chars(q.path)) <= Len(Chars(s.path))
           IN  [id |-> best.id, path |-> best.path]

\* INSERT OR REPLACE INTO font_files: a row in conflict is deleted and a new
\* one inserted
replaceFontFile(d, sourceId, filePath, ext, stats, now, status) ==
  [d EXCEPT
     !.font_files = {f \in @ : f.path # filePath} \cup
                      {[id |-> d.seq.font_files + 1, source_id |-> sourceId,
                        path |-> filePath, ext |-> ext,
                        file_size |-> stats.size, mtime |-> stats.mtimeMs,
                        last_seen_at |-> now, status |-> status]},
     !.seq.font_files = @ + 1]

\* INSERT INTO font_files ... ON CONFLICT(path) DO UPDATE SET ...
\* the INSERT INTO font_files without its ON CONFLICT(path) clause and
\* without the UNIQUE of path
upsertFontFileAddsRow(d, sourceId, filePath, ext, stats, now, status) ==
  [d EXCEPT
     !.font_files = @ \cup {[id |-> d.seq.font_files + 1, source_id |-> sourceId,
                             path |-> filePath, ext |-> ext,
                             file_size |-> stats.size, mtime |-> stats.mtimeMs,
                             last_seen_at |-> now, status |-> status]},
     !.seq.font_files = @ + 1]

upsertFontFile(d, sourceId, filePath, ext, stats, now, status) ==
  IF \E f \in d.font_files : f.path = filePath
  THEN [d EXCEPT !.font_files =
          {IF f.path = filePath
             THEN [f EXCEPT !.source_id = sourceId, !.ext = ext,
                            !.file_size = stats.size, !.mtime = stats.mtimeMs,
                            !.last_seen_at = now, !.status = status]
             ELSE f : f \in d.font_files}]
  ELSE [d EXCEPT
          !.font_files = @ \cup {[id |-> d.seq.font_files + 1, source_id |-> sourceId,
                                  path |-> filePath, ext |-> ext,
                                  file_size |-> stats.size, mtime |-> stats.mtimeMs,
                                  last_seen_at |-> now, status |-> status]},
          !.seq.font_files = @ + 1]

\* the INSERT INTO families with ON CONFLICT(family_key) DO NOTHING
upsertFamilyKeepsName(d, familyKey, familyName) ==
  IF \E g \in d.families : g.family_key = familyKey
  THEN d
  ELSE [d EXCEPT
          !.families = @ \cup {[id |-> d.seq.families + 1, family_key |-> familyKey,
                                family_name_display |-> familyName]},
          !.seq.families = @ + 1]

\* INSERT OR REPLACE INTO families: the row of the key is deleted, its
\* family_facet_values rows with it, and a row with a new id is inserted
upsertFamilyReplacesRow(d, familyKey, familyName) ==
  LET old == {g \in d.families : g.family_key = familyKey}
  IN  [d EXCEPT
         !.families = (@ \ old) \cup {[id |-> d.seq.families + 1, family_key |-> familyKey,
                                       family_name_display |-> familyName]},
         !.seq.families = @ + 1,
         !.family_facet_values = {a \in @ : \A g \in old : a.family_id # g.id}]

\* INSERT INTO families ... ON CONFLICT(family_key) DO UPDATE SET family_name_display
upsertFamily(d, familyKey, familyName) ==
  IF \E g \in d.families : g.family_key = familyKey
  THEN [d EXCEPT !.families =
          {IF g.family_key = familyKey
             THEN [g EXCEPT !.family_name_display = familyName]
             ELSE g : g \in d.families}]
  ELSE [d EXCEPT
          !.families = @ \cup {[id |-> d.seq.families + 1, family_key |-> familyKey,
                                family_name_display |-> familyName]},
          !.seq.families = @ + 1]

\* the loop over scanResult.faces of upsertScanResult
RECURSIVE insertFaces(_, _, _, _)
insertFaces(d, fileId, ext, faces) ==
  IF faces = << >> THEN d
  ELSE LET face == Head(faces)
           familyKey == normalizeFamilyKey(face.familyName)
           d1 == upsertFamily(d, familyKey, face.familyName)
           familyRow == CHOOSE g \in d1.families : g.family_key = familyKey
           d2 == [d1 EXCEPT
                    !.faces = @ \cup
                      {[id |-> d1.seq.faces + 1, family_id |-> familyRow.id,
                        file_id |-> fileId, index_in_collection |-> face.index,
                        style_name |-> face.styleName, activated_bool |-> 0,
                        preview_supported_bool |->
                          IF ext \in PREVIEWABLE_EXTENSIONS THEN 1 ELSE 0,
                        install_supported_bool |->
                          IF ext \in INSTALLABLE_EXTENSIONS THEN 1 ELSE 0]},
                    !.seq.faces = @ + 1]
       IN  insertFaces(d2, fileId, ext, Tail(faces))

\* upsertScanResult without the DELETE FROM faces
upsertScanResultKeepsFaces(d, filePath, sourceId, ext, stats, scanResult, now) ==
  LET d1 == upsertFontFile(d, sourceId, filePath, ext, stats, now, "ok")
      fileRow == CHOOSE f \in d1.font_files : f.path = filePath
  IN  insertFaces(d1, fileRow.id, ext, scanResult.faces)

\* upsertScanResult given up after the DELETE FROM faces
upsertScanResultDeletesOnly(d, filePath, sourceId, ext, stats, scanResult, now) ==
  LET d1 == upsertFontFile(d, sourceId, filePath, ext, stats, now, "ok")
      fileRow == CHOOSE f \in d1.font_files : f.path = filePath
  IN  [d1 EXCEPT !.faces = {r \in @ : r.file_id # fileRow.id}]

upsertScanResult(d, filePath, sourceId, ext, stats, scanResult, now) ==
  LET d1 == upsertFontFile(d, sourceId, filePath, ext, stats, now, "ok")
      fileRow == CHOOSE f \in d1.font_files : f.path = filePath
      d2 == [d1 EXCEPT !.faces = {r \in @ : r.file_id # fileRow.id}]
  IN  insertFaces(d2, fileRow.id, ext, scanResult.faces)

\* UPDATE font_files SET status = 'missing' ...; UPDATE faces SET activated_bool = 0 ...
setMissing(d, ids, now) ==
  [d EXCEPT
     !.font_files = {IF f.id \in ids
                       THEN [f EXCEPT !.status = "missing", !.last_seen_at = now]
                       ELSE f : f \in d.font_files},
     !.faces = {IF r.file_id \in ids THEN [r EXCEPT !.activated_bool = 0] ELSE r :
                  r \in d.faces}]

\* markFileMissing without the UPDATE of the faces
markFileMissingKeepsFlags(d, filePath, now) ==
  LET rows == {f \in d.font_files : f.path = filePath}
  IN  IF rows = {} THEN [db |-> d, ret |-> FALSE]
      ELSE [db |-> [d EXCEPT !.font_files =
                      {IF f \in rows
                         THEN [f EXCEPT !.status = "missing", !.last_seen_at = now]
                         ELSE f : f \in d.font_files}],
            ret |-> TRUE]

markFileMissing(d, filePath, now) ==
  LET rows == {f \in d.font_files : f.path = filePath}
  IN  IF rows = {} THEN [db |-> d, ret |-> FALSE]
      ELSE [db |-> setMissing(d, {f.id : f \in rows}, now), ret |-> TRUE]

markMissingUnderPath(d, pathPrefix, now) ==
  LET rows == {f \in d.font_files : likePrefix(f.path, pathPrefix) /\ f.status # "missing"}
  IN  IF rows = {} THEN [db |-> d, ret |-> << >>]
      ELSE [db |-> setMissing(d, {f.id : f \in rows}, now), ret |-> pathsOf(rows)]

\* the tail of scanSource with last_seen_at <= scanStartedAt
markUnseenInclusive(d, sourceId, scanStartedAt, now) ==
  LET missingRows == {f \in d.font_files :
                        /\ f.source_id = sourceId
                        /\ f.last_seen_at <= scanStartedAt
                        /\ f.status # "missing"}
  IN  IF missingRows = {} THEN [db |-> d, ret |-> << >>]
      ELSE [db |-> setMissing(d, {f.id : f \in missingRows}, now),
            ret |-> pathsOf(missingRows)]

\* the tail of scanSource: the files of the source this scan did not see
markUnseen(d, sourceId, scanStartedAt, now) ==
  LET missingRows == {f \in d.font_files :
                        /\ f.source_id = sourceId
                        /\ f.last_seen_at < scanStartedAt
                        /\ f.status # "missing"}
  IN  IF missingRows = {} THEN [db |-> d, ret |-> << >>]
      ELSE [db |-> setMissing(d, {f.id : f \in missingRows}, now),
            ret |-> pathsOf(missingRows)]

\* setFaceActivated without the test of the file's status
setFaceActivatedAnyStatus(d, faceId, activated) ==
  LET found == {r \in d.faces : r.id = faceId}
  IN  IF found = {} THEN [db |-> d, ret |-> null]
      ELSE
        LET face == CHOOSE r \in found : TRUE
            file == CHOOSE f \in d.font_files : f.id = face.file_id
            d1 == [d EXCEPT !.faces =
                     {IF r.id = faceId
                        THEN [r EXCEPT !.activated_bool =
                                IF activated /\ face.install_supported_bool = 1
                                  THEN 1 ELSE 0]
                        ELSE r : r \in d.faces}]
            activeCount == Cardinality({r \in d1.faces :
                              r.file_id = face.file_id /\ r.activated_bool = 1})
        IN  [db |-> d1,
             ret |-> [filePath |-> file.path,
                      installSupported |-> face.install_supported_bool # 0,
                      shouldRegister |-> activated /\ activeCount = 1,
                      shouldUnregister |-> ~activated /\ activeCount = 0,
                      activated |-> activated /\ face.install_supported_bool = 1]]

setFaceActivated(d, faceId, activated) ==
  LET found == {r \in d.faces : r.id = faceId}
  IN  IF found = {} THEN [db |-> d, ret |-> null]
      ELSE
        LET face == CHOOSE r \in found : TRUE
            file == CHOOSE f \in d.font_files : f.id = face.file_id
        IN  IF face.install_supported_bool = 0 \/ file.status # "ok"
            THEN [db |-> [d EXCEPT !.faces =
                            {IF r.id = faceId THEN [r EXCEPT !.activated_bool = 0] ELSE r :
                               r \in d.faces}],
                  ret |-> [filePath |-> file.path,
                           installSupported |-> face.install_supported_bool # 0,
                           shouldRegister |-> FALSE, shouldUnregister |-> FALSE,
                           activated |-> FALSE]]
            ELSE
              LET d1 == [d EXCEPT !.faces =
                           {IF r.id = faceId
                              THEN [r EXCEPT !.activated_bool = IF activated THEN 1 ELSE 0]
                              ELSE r : r \in d.faces}]
                  activeCount == Cardinality({r \in d1.faces :
                                    r.file_id = face.file_id /\ r.activated_bool = 1})
              IN  [db |-> d1,
                   ret |-> [filePath |-> file.path, installSupported |-> TRUE,
                            shouldRegister |-> activated /\ activeCount = 1,
                            shouldUnregister |-> ~activated /\ activeCount = 0,
                            activated |-> activated]]

(***************************************************************************)
(* The facet tables: syncFacetSchema and setFamilyFacetValues              *)
(***************************************************************************)
\* DELETE FROM facet_values WHERE id IN ids, with the ON DELETE CASCADE of
\* family_facet_values.value_id
deleteFacetValues(d, ids) ==
  [d EXCEPT !.facet_values = {v \in @ : v.id \notin ids},
            !.family_facet_values = {a \in @ : a.value_id \notin ids}]

\* DELETE FROM facet_columns WHERE key IN keys, with the ON DELETE CASCADE
\* of facet_values.column_id
deleteFacetColumns(d, keys) ==
  LET gone == {c.id : c \in {c \in d.facet_columns : c.key \in keys}}
      d1 == [d EXCEPT !.facet_columns = {c \in @ : c.id \notin gone}]
  IN  deleteFacetValues(d1, {v.id : v \in {v \in d.facet_values : v.column_id \in gone}})

\* INSERT INTO facet_columns ... ON CONFLICT(key) DO UPDATE SET display_name, type
upsertFacetColumn(d, column) ==
  IF \E c \in d.facet_columns : c.key = column.key
  THEN [d EXCEPT !.facet_columns =
          {IF c.key = column.key
             THEN [c EXCEPT !.display_name = column.displayName, !.type = column.type]
             ELSE c : c \in d.facet_columns}]
  ELSE [d EXCEPT
          !.facet_columns = @ \cup {[id |-> d.seq.facet_columns + 1, key |-> column.key,
                                     display_name |-> column.displayName,
                                     type |-> column.type]},
          !.seq.facet_columns = @ + 1]

\* INSERT INTO facet_values ... ON CONFLICT(column_id, value_key) DO UPDATE SET display_name
RECURSIVE upsertFacetValues(_, _, _)
upsertFacetValues(d, columnId, values) ==
  IF values = << >> THEN d
  ELSE LET value == Head(values)
           d1 == IF \E v \in d.facet_values :
                      v.column_id = columnId /\ v.value_key = value.key
                 THEN [d EXCEPT !.facet_values =
                         {IF v.column_id = columnId /\ v.value_key = value.key
                            THEN [v EXCEPT !.display_name = value.displayName]
                            ELSE v : v \in d.facet_values}]
                 ELSE [d EXCEPT
                         !.facet_values = @ \cup
                           {[id |-> d.seq.facet_values + 1, column_id |-> columnId,
                             value_key |-> value.key, display_name |-> value.displayName]},
                         !.seq.facet_values = @ + 1]
       IN  upsertFacetValues(d1, columnId, Tail(values))

\* the values syncFacetSchema stores for a column of the schema: the
\* synthetic value of a boolean column that declares none
normalizedValues(column) ==
  IF column.type = "boolean" /\ column.values = << >>
  THEN <<[key |-> "true", displayName |-> column.displayName]>>
  ELSE column.values

\* one round of the loop over schema.columns
syncFacetColumn(d, column) ==
  LET d1 == upsertFacetColumn(d, column)
      columnId == (CHOOSE c \in d1.facet_columns : c.key = column.key).id
      values == normalizedValues(column)
      valueKeys == {values[i].key : i \in DOMAIN values}
      valuesToDelete == {v \in d1.facet_values :
                           v.column_id = columnId /\ v.value_key \notin valueKeys}
      d2 == deleteFacetValues(d1, {v.id : v \in valuesToDelete})
  IN  upsertFacetValues(d2, columnId, values)

RECURSIVE syncFacetColumns(_, _)
syncFacetColumns(d, columns) ==
  IF columns = << >> THEN d
  ELSE syncFacetColumns(syncFacetColumn(d, Head(columns)), Tail(columns))

syncFacetSchema(d, schema) ==
  LET columnKeys == {schema.columns[i].key : i \in DOMAIN schema.columns}
      deleteKeys == {c.key : c \in {c \in d.facet_columns : c.key \notin columnKeys}}
  IN  syncFacetColumns(deleteFacetColumns(d, deleteKeys), schema.columns)

\* Array.from(new Set(valueIds)): the first occurrence of every id, in order
RECURSIVE uniqueValuesOf(_)
uniqueValuesOf(valueIds) ==
  IF valueIds = << >> THEN << >>
  ELSE LET init == uniqueValuesOf(SubSeq(valueIds, 1, Len(valueIds) - 1))
           x == valueIds[Len(valueIds)]
       IN  IF x \in Range(init) THEN init ELSE Append(init, x)

\* the INSERTs of setFamilyFacetValues, one after the other: an INSERT that
\* names a family or a value that is not stored fails its FOREIGN KEY and
\* the call throws there, the rows written before it staying
RECURSIVE insertFamilyFacetValues(_, _, _)
insertFamilyFacetValues(d, familyId, valueIds) ==
  IF valueIds = << >> THEN [db |-> d, threw |-> FALSE]
  ELSE IF \/ \A g \in d.families : g.id # familyId
          \/ \A v \in d.facet_values : v.id # Head(valueIds)
  THEN [db |-> d, threw |-> TRUE]
  ELSE insertFamilyFacetValues(
         [d EXCEPT !.family_facet_values =
            @ \cup {[family_id |-> familyId, value_id |-> Head(valueIds)]}],
         familyId, Tail(valueIds))

setFamilyFacetValues(d, familyId, valueIds) ==
  LET d1 == [d EXCEPT !.family_facet_values = {a \in @ : a.family_id # familyId}]
  IN  insertFamilyFacetValues(d1, familyId, uniqueValuesOf(valueIds))

VARIABLES
  clock,   \* the wall clock read by new Date(), in milliseconds
  world,   \* the paths that exist or are reported at some time of this run
  db,      \* the SQLite tables and their AUTOINCREMENT counters
  tasks,   \* the asynchronous handlers in flight
  queue,   \* pendingPaths, processingPaths and the drain loop's position
  sweep,   \* reconcileActivationState's position
  helper,  \* helperProcess, helperReady, helperPending, the pipes, the callers
  last     \* what the last step did and returned

vars == <<clock, world, db, tasks, queue, sweep, helper, last>>

(***************************************************************************)
(* Main process: the request channel to the FontService helper.  Each of   *)
(* Callers is a handler that sends one request at a time and awaits its    *)
(* promise; `from` in a request or response line tells whose request the   *)
(* helper read, which the line itself carries only as method and params.   *)
(***************************************************************************)
Callers == {"c1", "c2"}

\* a handler that has sent no request
NoCall == [pc |-> "idle", id |-> 0, got |-> ""]

\* the channel when app.whenReady has awaited startHelper()
HelperStarted ==
  [helperProcess |-> TRUE, helperReady |-> TRUE, helperPending |-> {},
   stdin |-> << >>, stdout |-> << >>, calls |-> [c \in Callers |-> NoCall]]

\* startHelper(): returns at once when a process exists, else spawns one
startHelper(h) ==
  IF h.helperProcess THEN h
  ELSE [h EXCEPT !.helperProcess = TRUE, !.helperReady = TRUE, !.stdin = << >>]

\* sendHelperRequest(request) by handler c with request.id = id: throws when
\* no helper runs, else writes the line and sets helperPending[String(id)]
sendHelperRequestFrom(h, c, id) ==
  IF ~h.helperProcess \/ ~h.helperReady
  THEN [h EXCEPT !.calls[c] = [pc |-> "threw", id |-> id, got |-> ""]]
  ELSE [h EXCEPT !.stdin = Append(@, [id |-> id, from |-> c]),
                 !.helperPending = {q \in @ : q.id # id} \cup {[id |-> id, caller |-> c]},
                 !.calls[c] = [pc |-> "waiting", id |-> id, got |-> ""]]

\* the helper's loop reads the next request line and responds with its id
helperResponds(h, error) ==
  [h EXCEPT !.stdin = Tail(@),
            !.stdout = Append(@, [id |-> Head(h.stdin).id, from |-> Head(h.stdin).from,
                                  error |-> error])]

\* handleHelperLine(line) for a response line
handleHelperLine(h, line) ==
  LET found == {q \in h.helperPending : q.id = line.id}
  IN  IF found = {} THEN h
      ELSE LET pending == CHOOSE q \in found : TRUE
           IN  [h EXCEPT !.helperPending = @ \ found,
                         !.calls[pending.caller] =
                            [pc |-> IF line.error THEN "rejected" ELSE "resolved",
                             id |-> @.id, got |-> line.from]]

\* the 'exit' listener of the helper process
helperExited(h) ==
  [h EXCEPT !.helperProcess = FALSE, !.helperReady = FALSE, !.helperPending = {},
            !.stdin = << >>,
            !.calls = [c \in Callers |->
                         IF \E q \in h.helperPending : q.caller = c
                         THEN [pc |-> "rejected", id |-> h.calls[c].id, got |-> ""]
                         ELSE h.calls[c]]]

(***************************************************************************)
(* Main process: the handlers in flight                                    *)
(***************************************************************************)
\* "drain": the change-event drain loop; "ipc": a sources:add / sources:scan call
Slots == {"drain", "ipc"}

SourceIds == 1 .. Cardinality(Dirs)

Idle ==
  [pc |-> "idle", kind |-> "", path |-> "", sourceId |-> 0, sourcePath |-> "",
   scanStartedAt |-> 0, pos |-> 0, seen |-> {}, missingPaths |-> << >>, mi |-> 0]

unregisterRequest(path) == [method |-> "unregisterFont", path |-> path]
registerRequest(path) == [method |-> "registerFont", path |-> path]

\* a loop of try { await sendHelperRequest(unregisterFont) } catch {} that
\* stops at the first request that fails
RECURSIVE unregisterEachStops(_, _)
unregisterEachStops(removed, failing) ==
  IF removed = << >> THEN << >>
  ELSE IF Head(removed) \in failing THEN <<unregisterRequest(Head(removed))>>
  ELSE <<unregisterRequest(Head(removed))>> \o unregisterEachStops(Tail(removed), failing)

\* the unregisterFont requests of handleMissingPath, each in its own
\* try/catch; the requests for the paths of `failing` are rejected
RECURSIVE unregisterEach(_, _)
unregisterEach(removed, failing) ==
  IF removed = << >> THEN << >>
  ELSE <<unregisterRequest(Head(removed))>> \o unregisterEach(Tail(removed), failing)

\* handleMissingPath whose loop ends at the first request that fails
handleMissingPathStops(d, path, now, failing) ==
  LET m == markFileMissing(d, path, now)
  IN  IF ~m.ret
      THEN LET u == markMissingUnderPath(m.db, path, now)
           IN  [db |-> u.db, missing |-> FALSE, removed |-> u.ret,
                os |-> unregisterEachStops(u.ret, failing)]
      ELSE [db |-> m.db, missing |-> TRUE, removed |-> << >>,
            os |-> unregisterEachStops(<<path>>, failing)]

\* handleMissingPath when the helper rejects the requests for `failing`: the
\* store calls and the helper requests it sends
handleMissingPathWith(d, path, now, failing) ==
  LET m == markFileMissing(d, path, now)
  IN  IF ~m.ret
      THEN LET u == markMissingUnderPath(m.db, path, now)
           IN  [db |-> u.db, missing |-> FALSE, removed |-> u.ret,
                os |-> unregisterEach(u.ret, failing)]
      ELSE [db |-> m.db, missing |-> TRUE, removed |-> << >>,
            os |-> unregisterEach(<<path>>, failing)]

\* handleMissingPath: what it does is the same whichever requests fail
handleMissingPath(d, path, now) == handleMissingPathWith(d, path, now, {})

\* the catch block of scanFilePath
scanFilePathCatch(d, filePath, now) ==
  LET m == markFileMissing(d, filePath, now)
  IN  [db |-> m.db,
       ret |-> [scanned |-> 0, missingPaths |-> IF m.ret THEN <<filePath>> ELSE << >>]]

\* the catch block around scanFile in scanSource
scanSourceCatch(d, sourceId, filePath, ext, stats, now) ==
  upsertFontFile(d, sourceId, filePath, ext, stats, now, "error")

\* the status recorded for path, "none" when there is no row
statusOf(d, path) ==
  IF \E f \in d.font_files : f.path = path
  THEN (CHOOSE f \in d.font_files : f.path = path).status
  ELSE "none"

\* what a step records about the file it wrote: the outcome, the faces
\* scanFile reported, the status the file had before and whether one of its
\* faces was activated before
FileInfo(d, path, outcome, faces) ==
  [path |-> path, outcome |-> outcome, faces |-> faces, was |-> statusOf(d, path),
   active |-> \E r \in d.faces : /\ r.activated_bool = 1
                                 /\ \E f \in d.font_files : f.id = r.file_id /\ f.path = path]

\* pendingPaths (a Set, in insertion order) and processingPaths; paths and
\* path are the array and the loop variable of the running processPendingPaths;
\* active counts the processPendingPaths calls that have set processingPaths
\* and not yet cleared it; burst and handled observe how often the path of
\* the watcher's last double notification is passed to handleSourcePathChange
EmptyQueue ==
  [pendingPaths |-> << >>, processingPaths |-> FALSE, paths |-> << >>, path |-> "",
   active |-> 0, burst |-> "", handled |-> 0]

\* reconcileActivationState is not running
NoSweep == [pc |-> "idle", entries |-> << >>, i |-> 0]

InitIn(w) ==
  /\ clock = 0
  /\ world = w
  /\ db = EmptyDb
  /\ tasks = [s \in Slots |-> Idle]
  /\ queue = EmptyQueue
  /\ sweep = NoSweep
  /\ helper = HelperStarted
  /\ last = [op |-> "env"]

\* time passes
Tick ==
  /\ clock < MaxClock
  /\ clock' = clock + 1
  /\ last' = [op |-> "env"]
  /\ UNCHANGED <<world, db, tasks, queue, sweep, helper>>

(***************************************************************************)
(* scanSource, as run by a handler in slot s                               *)
(***************************************************************************)
\* scanSource returns: the tail marks the unseen files, the caller goes on to
\* handleMissingPath for each path returned
ScanReturn(s, d, t, info) ==
  LET r == markUnseen(d, t.sourceId, t.scanStartedAt, clock)
  IN  /\ db' = r.db
      /\ tasks' = [tasks EXCEPT ![s] =
                     IF r.ret = << >> THEN Idle
                     ELSE [Idle EXCEPT !.pc = "missing", !.kind = t.kind,
                                       !.missingPaths = r.ret, !.mi = 1]]
      /\ last' = [op |-> "scanSource", sourceId |-> t.sourceId, threw |-> FALSE,
                  cause |-> "", file |-> info,
                  ret |-> [scanned |-> Cardinality(t.seen), missingPaths |-> r.ret]]

\* scanSource rejects: handleSourcePathChange catches and calls
\* handleMissingPath(path), the ipc handlers reject
ScanThrow(s, t, cause) ==
  LET h == handleMissingPath(db, t.path, clock)
  IN  /\ db' = IF t.kind = "change" THEN h.db ELSE db
      /\ tasks' = [tasks EXCEPT ![s] = Idle]
      /\ last' = [op |-> "scanSource", sourceId |-> t.sourceId, threw |-> TRUE,
                  cause |-> cause, file |-> null, caught |-> t.kind = "change",
                  os |-> IF t.kind = "change" THEN h.os ELSE << >>]

\* the synchronous head of scanSource(sourceId), called by a handler of `kind`
ScanCall(s, d, kind, path, sourceId) ==
  LET found == {src \in d.sources : src.id = sourceId}
  IN  IF found = {}
      THEN /\ db' = d
           /\ tasks' = [tasks EXCEPT ![s] = Idle]
           /\ last' = [op |-> "scanSource", sourceId |-> sourceId, threw |-> FALSE,
                       cause |-> "", file |-> null,
                       ret |-> [scanned |-> 0, missingPaths |-> << >>]]
      ELSE LET source == CHOOSE src \in found : TRUE
           IN  /\ db' = d
               /\ tasks' = [tasks EXCEPT ![s] =
                              [Idle EXCEPT !.pc = "scan", !.kind = kind, !.path = path,
                                 !.sourceId = source.id, !.sourcePath = source.path,
                                 !.scanStartedAt = clock]]
               /\ last' = [op |-> "env"]

\* position of a file in the order walkDirectory lists the files
walkIndex(f) == CHOOSE i \in DOMAIN FileOrder : FileOrder[i] = f

\* the files walkDirectory(dir) can still list after position pos and the
\* extension filter lets through
candidates(dir, pos) ==
  {f \in Files \cap world :
                 /\ underDir(f, dir)
                 /\ walkIndex(f) > pos
                 /\ extOf(f) \in SUPPORTED_EXTENSIONS}

\* a failing walkDirectory that makes the drain loop give up its other paths
ScanWalkFailsAborts(s) ==
  LET t == tasks[s]
  IN  /\ t.pc = "scan"
      /\ t.pos = 0
      /\ ScanThrow(s, t, "walk")
      /\ queue' = [queue EXCEPT !.paths = << >>]
      /\ UNCHANGED <<clock, world, sweep, helper>>

\* await walkDirectory(source.path) fails: the directory is gone
ScanWalkFails(s) ==
  LET t == tasks[s]
  IN  /\ t.pc = "scan"
      /\ t.pos = 0
      /\ ScanThrow(s, t, "walk")
      /\ UNCHANGED <<clock, world, queue, sweep, helper>>

\* one round of the loop of scanSource over the listing of walkDirectory:
\* await fs.stat(filePath), await scanFile(filePath), the store call, and
\* when the file was the last one of the listing, the tail of scanSource
ScanFile(s) ==
  LET t == tasks[s]
  IN  /\ t.pc = "scan"
      /\ UNCHANGED <<clock, world, queue, sweep, helper>>
      /\ \E filePath \in candidates(t.sourcePath, t.pos) : \E isLast \in BOOLEAN :
           LET ext == extOf(filePath)
               t1 == [t EXCEPT !.pos = walkIndex(filePath), !.seen = @ \cup {filePath}]
               Continue(d1, info) ==
                 IF isLast
                 THEN ScanReturn(s, d1, t1, info)
                 ELSE /\ db' = d1
                      /\ tasks' = [tasks EXCEPT ![s] = t1]
                      /\ last' = [op |-> "scanSource.file", file |-> info]
           IN  /\ isLast \/ candidates(t.sourcePath, walkIndex(filePath)) # {}
               /\ \/ /\ isLast
                     /\ ScanThrow(s, t, "stat")
                  \/ \E stats \in StatsOf(filePath) :
                       \/ Continue(scanSourceCatch(db, t.sourceId, filePath, ext, stats, clock),
                                   FileInfo(db, filePath, "error", << >>))
                       \/ \E faces \in FacesOf(filePath) :
                            /\ db.seq.faces + Len(faces) <= MaxFaceId
                            /\ Continue(upsertScanResult(db, filePath, t.sourceId, ext, stats,
                                           [path |-> filePath, faces |-> faces], clock),
                                        FileInfo(db, filePath, "upsert", faces))

\* walkDirectory listed no further file: the tail of scanSource
ScanEmpty(s) ==
  LET t == tasks[s]
  IN  /\ t.pc = "scan"
      /\ t.pos = 0
      /\ ScanReturn(s, db, t, null)
      /\ UNCHANGED <<clock, world, queue, sweep, helper>>

\* the callers' loop: await handleMissingPath(missingPath)
MissingStep(s) ==
  LET t == tasks[s]
      h == handleMissingPath(db, t.missingPaths[t.mi], clock)
  IN  /\ t.pc = "missing"
      /\ db' = h.db
      /\ tasks' = [tasks EXCEPT ![s] =
                     IF t.mi = Len(t.missingPaths) THEN Idle ELSE [t EXCEPT !.mi = @ + 1]]
      /\ last' = [op |-> "handleMissingPath", path |-> t.missingPaths[t.mi],
                  missing |-> h.missing, removed |-> h.removed, os |-> h.os]
      /\ UNCHANGED <<clock, world, queue, sweep, helper>>

(***************************************************************************)
(* handleSourcePathChange(path), run by the drain loop                     *)
(***************************************************************************)
\* the paths the watcher reports: the watched source directories and below
watched(d, path) ==
  \E src \in listSourcesRaw(d) : path = src.path \/ underDir(path, src.path)

\* what fs.stat(path) can answer for a path of the universe
StatKinds(path) ==
  IF path \in Dirs THEN {"directory", "gone"}
  ELSE IF path \in Files THEN {"file", "gone"}
  ELSE {"gone"}

\* the two early returns at the head of scanFilePath(filePath)
scanFilePathRejects(d, filePath) ==
  \/ extOf(filePath) \notin SUPPORTED_EXTENSIONS
  \/ findSourceForPath(d, filePath) = null

\* handleSourcePathChange(path) up to the first await inside the scan it
\* selects: await fs.stat(path), then scanSource, scanFilePath or
\* handleMissingPath
ChangeHandle(path, kind) ==
  /\ IF kind = "directory"
     THEN LET source == findSourceForPath(db, path)
          IN  IF source # null /\ source.path = path
              THEN ScanCall("drain", db, "change", path, source.id)
              ELSE /\ last' = [op |-> "handleSourcePathChange", path |-> path,
                               outcome |-> "ignored"]
                   /\ UNCHANGED <<db, tasks>>
     ELSE IF kind = "file"
     THEN IF scanFilePathRejects(db, path)
          THEN /\ last' = [op |-> "scanFilePath", path |-> path,
                           outcome |-> "rejected", cause |-> "", file |-> null,
                           ret |-> [scanned |-> 0, missingPaths |-> << >>]]
               /\ UNCHANGED <<db, tasks>>
          ELSE /\ tasks' = [tasks EXCEPT !["drain"] =
                              [Idle EXCEPT !.pc = "fscan", !.kind = "change",
                                 !.path = path,
                                 !.sourceId = findSourceForPath(db, path).id]]
               /\ last' = [op |-> "env"]
               /\ db' = db
     ELSE LET h == handleMissingPath(db, path, clock)
          IN  /\ db' = h.db
              /\ last' = [op |-> "handleMissingPath", path |-> path,
                          missing |-> h.missing, removed |-> h.removed, os |-> h.os]
              /\ UNCHANGED tasks

\* the drain loop hands some watched path to handleSourcePathChange
ChangeStart ==
  \E path \in EventPaths \cap world : \E kind \in StatKinds(path) :
    /\ \A q \in Slots : tasks[q].pc = "idle"
    /\ watched(db, path)
    /\ UNCHANGED <<clock, world, queue, sweep, helper>>
    /\ ChangeHandle(path, kind)

\* scanFilePath returns to handleSourcePathChange
FileScanReturn(t, d, outcome, cause, info, ret) ==
  /\ db' = d
  /\ tasks' = [tasks EXCEPT !["drain"] =
                 IF ret.missingPaths = << >> THEN Idle
                 ELSE [Idle EXCEPT !.pc = "missing", !.kind = "change",
                                   !.missingPaths = ret.missingPaths, !.mi = 1]]
  /\ last' = [op |-> "scanFilePath", path |-> t.path, outcome |-> outcome,
              cause |-> cause, file |-> info, ret |-> ret]

\* the try block of scanFilePath: await fs.stat(filePath), await
\* scanFile(filePath), upsertScanResult, and its catch block
FileScan ==
  LET t == tasks["drain"]
      ext == extOf(t.path)
  IN  /\ t.pc = "fscan"
      /\ UNCHANGED <<clock, world, queue, sweep, helper>>
      /\ \/ \E cause \in {"stat", "introspect"} :
              LET c == scanFilePathCatch(db, t.path, clock)
              IN  FileScanReturn(t, c.db, "catch", cause, null, c.ret)
         \/ \E stats \in StatsOf(t.path) : \E faces \in FacesOf(t.path) :
              /\ db.seq.faces + Len(faces) <= MaxFaceId
              /\ FileScanReturn(t,
                   upsertScanResult(db, t.path, t.sourceId, ext, stats,
                                    [path |-> t.path, faces |-> faces], clock),
                   "upsert", "", FileInfo(db, t.path, "upsert", faces),
                   [scanned |-> 1, missingPaths |-> << >>])

(***************************************************************************)
(* IPC handlers: the renderer's window is created when the sweep of        *)
(* app.whenReady is over                                                   *)
(***************************************************************************)
\* ipcMain.handle('sources:add'): the directory chosen in the dialog
SourcesAdd ==
  \E dir \in Dirs \cap world :
    /\ sweep.pc = "idle"
    /\ \A q \in Slots : tasks[q].pc = "idle"
    /\ LET d1 == addSource(db, dir, clock)
       IN  ScanCall("ipc", d1, "ipc", "", sourceByPath(d1, dir).id)
    /\ UNCHANGED <<clock, world, queue, sweep, helper>>

\* ipcMain.handle('sources:scan')
SourcesScan ==
  \E sourceId \in SourceIds :
    /\ sweep.pc = "idle"
    /\ \A q \in Slots : tasks[q].pc = "idle"
    /\ ScanCall("ipc", db, "ipc", "", sourceId)
    /\ UNCHANGED <<clock, world, queue, sweep, helper>>

\* ipcMain.handle('faces:setActivated'): the store call, the helper requests
\* sent (their failures are ignored) and the reply
facesSetActivated(d, faceId, activated) ==
  LET u == setFaceActivated(d, faceId, activated)
      update == u.ret
  IN  IF update = null \/ ~update.installSupported
      THEN [db |-> u.db, update |-> update, os |-> << >>,
            reply |-> [activated |-> FALSE]]
      ELSE [db |-> u.db, update |-> update,
            os |-> (IF update.shouldRegister
                      THEN <<registerRequest(update.filePath)>> ELSE << >>)
                   \o (IF update.shouldUnregister
                         THEN <<unregisterRequest(update.filePath)>> ELSE << >>),
            reply |-> [activated |-> update.activated]]

\* how a helper request ends: answered with a result, answered with an
\* error, refused because the helper is not running, rejected because the
\* helper exited while it was pending
HelperOutcomes == {"result", "error", "notRunning", "exited"}

\* sendHelperRequest: the request is written to the helper unless it is not
\* running; the promise resolves on a result and rejects otherwise
sendHelperRequest(request, outcome) ==
  [written |-> IF outcome = "notRunning" THEN << >> ELSE <<request>>,
   rejected |-> outcome # "result"]

\* the handler without its try/catch: a rejected request rejects the reply
facesSetActivatedPropagates(d, faceId, activated, outcome) ==
  LET h == facesSetActivated(d, faceId, activated)
      sent == [i \in DOMAIN h.os |-> sendHelperRequest(h.os[i], outcome)]
      rejected == \E i \in DOMAIN sent : sent[i].rejected
  IN  [db |-> h.db, update |-> h.update,
       os |-> IF h.os = << >> THEN << >> ELSE sent[1].written,
       failed |-> rejected,
       completed |-> ~rejected,
       reply |-> IF rejected THEN null ELSE h.reply]

\* ipcMain.handle('faces:setActivated') with the helper's answer: the store
\* call comes first, each request is awaited inside its own try/catch, the
\* reply is built from the update whatever the request came to
facesSetActivatedWith(d, faceId, activated, outcome) ==
  LET h == facesSetActivated(d, faceId, activated)
      sent == [i \in DOMAIN h.os |-> sendHelperRequest(h.os[i], outcome)]
  IN  [db |-> h.db, update |-> h.update,
       os |-> IF h.os = << >> THEN << >> ELSE sent[1].written,
       failed |-> \E i \in DOMAIN sent : sent[i].rejected,
       completed |-> TRUE,
       reply |-> h.reply]

\* the renderer calls faces:setActivated with the id of a stored face or
\* with an id no face has
FacesSetActivated ==
  \E faceId \in {r.id : r \in db.faces} \cup {0} : \E activated \in BOOLEAN :
    \E outcome \in HelperOutcomes :
      LET h == facesSetActivatedWith(db, faceId, activated, outcome)
      IN  /\ sweep.pc = "idle"
          /\ h.completed
          /\ db' = h.db
          /\ last' = [op |-> "faces:setActivated", found |-> h.update # null,
                      failed |-> h.failed]
          /\ UNCHANGED <<clock, world, tasks, queue, sweep, helper>>

(***************************************************************************)
(* The drift sweep: reconcileActivationState, run by app.whenReady         *)
(***************************************************************************)
isFontRegisteredRequest(path) == [method |-> "isFontRegistered", path |-> path]

\* listActivationFiles: one entry per file that has a face
listActivationFiles(d) ==
  LET rows == sortById({f \in d.font_files : \E r \in d.faces : r.file_id = f.id})
  IN  [i \in DOMAIN rows |->
         [fileId |-> rows[i].id, filePath |-> rows[i].path, status |-> rows[i].status,
          installSupported |->
            \E r \in d.faces : r.file_id = rows[i].id /\ r.install_supported_bool = 1,
          activatedCount |->
            Cardinality({r \in d.faces : r.file_id = rows[i].id /\ r.activated_bool = 1})]]

\* one round of the loop that sends registerFont whenever the count is positive
reconcileEntryAlwaysRegisters(entry, registered, failing) ==
  LET path == entry.filePath
  IN  IF ~entry.installSupported \/ entry.status # "ok"
      THEN [os |-> << >>, registered |-> registered, threw |-> FALSE]
      ELSE IF entry.activatedCount > 0
      THEN [os |-> <<isFontRegisteredRequest(path), registerRequest(path)>>,
            registered |-> registered \cup {path}, threw |-> FALSE]
      ELSE [os |-> <<isFontRegisteredRequest(path)>>, registered |-> registered, threw |-> FALSE]

\* one round of the loop that gives the sweep up when a request fails
reconcileEntryThrows(entry, registered, failing) ==
  LET path == entry.filePath
      ask == isFontRegisteredRequest(path)
  IN  IF ~entry.installSupported \/ entry.status # "ok"
      THEN [os |-> << >>, registered |-> registered, threw |-> FALSE]
      ELSE IF ask \in failing
      THEN [os |-> <<ask>>, registered |-> registered, threw |-> TRUE]
      ELSE LET answer == path \in registered
               reg == IF entry.activatedCount > 0 /\ ~answer
                      THEN <<registerRequest(path)>> ELSE << >>
               unreg == IF entry.activatedCount = 0 /\ answer
                        THEN <<unregisterRequest(path)>> ELSE << >>
           IN  [os |-> <<ask>> \o reg \o unreg,
                registered |-> (registered \cup {p \in {path} : reg # << >>})
                                 \ {p \in {path} : unreg # << >>},
                threw |-> (Range(reg \o unreg) \cap failing) # {}]

\* one round of the loop of reconcileActivationState: the requests sent for
\* the entry and the files the OS has registered afterwards, when the OS has
\* `registered` registered and the helper rejects the requests of `failing`
reconcileEntry(entry, registered, failing) ==
  LET path == entry.filePath
      ask == isFontRegisteredRequest(path)
  IN  IF ~entry.installSupported \/ entry.status # "ok"
      THEN [os |-> << >>, registered |-> registered, threw |-> FALSE]
      ELSE IF ask \in failing
      THEN [os |-> <<ask>>, registered |-> registered, threw |-> FALSE]
      ELSE LET answer == path \in registered
               reg == IF entry.activatedCount > 0 /\ ~answer
                      THEN <<registerRequest(path)>> ELSE << >>
               r1 == IF reg # << >> /\ registerRequest(path) \notin failing
                     THEN registered \cup {path} ELSE registered
               unreg == IF entry.activatedCount = 0 /\ answer
                        THEN <<unregisterRequest(path)>> ELSE << >>
               r2 == IF unreg # << >> /\ unregisterRequest(path) \notin failing
                     THEN r1 \ {path} ELSE r1
           IN  [os |-> <<ask>> \o reg \o unreg, registered |-> r2, threw |-> FALSE]

\* reconcileActivationState over the entries of its snapshot, nothing else
\* running meanwhile: all the requests sent and the OS registrations after
RECURSIVE reconcileActivationState(_, _, _)
reconcileActivationState(entries, registered, failing) ==
  IF entries = << >> THEN [os |-> << >>, registered |-> registered]
  ELSE LET e == reconcileEntry(Head(entries), registered, failing)
           rest == IF e.threw THEN [os |-> << >>, registered |-> e.registered]
                   ELSE reconcileActivationState(Tail(entries), e.registered, failing)
       IN  [os |-> e.os \o rest.os, registered |-> rest.registered]

\* the requests the sweep can send for path
sweepRequests(path) ==
  {isFontRegisteredRequest(path), registerRequest(path), unregisterRequest(path)}

\* app.whenReady: the process starts on the library the runs before have
\* left, the helper and its watcher are started, reconcileActivationState
\* takes its snapshot
WhenReady ==
  /\ sweep.pc = "idle"
  /\ \A q \in Slots : tasks[q].pc = "idle"
  /\ queue.active = 0 /\ queue.pendingPaths = << >>
  /\ LET entries == listActivationFiles(db)
     IN  sweep' = IF entries = << >> THEN NoSweep
                  ELSE [pc |-> "run", entries |-> entries, i |-> 1]
  /\ last' = [op |-> "whenReady"]
  /\ UNCHANGED <<clock, world, db, tasks, queue, helper>>

\* one round of the loop of reconcileActivationState with its awaits: the OS
\* answers isFontRegistered with what it has, the helper rejects some of the
\* requests
SweepStep ==
  /\ sweep.pc = "run"
  /\ LET entry == sweep.entries[sweep.i]
     IN  \E answer \in BOOLEAN : \E failing \in SUBSET sweepRequests(entry.filePath) :
           LET e == reconcileEntry(entry, IF answer THEN {entry.filePath} ELSE {}, failing)
               over == e.threw \/ sweep.i = Len(sweep.entries)
           IN  /\ sweep' = IF over THEN NoSweep ELSE [sweep EXCEPT !.i = @ + 1]
               /\ last' = [op |-> "reconcile", path |-> entry.filePath, os |-> e.os,
                           failed |-> Range(e.os) \cap failing # {}]
  /\ UNCHANGED <<clock, world, db, tasks, queue, helper>>

(***************************************************************************)
(* The change-event queue: handleHelperEvent and processPendingPaths       *)
(***************************************************************************)
\* pendingPaths.add(path)
addPending(pending, path) ==
  IF path \in Range(pending) THEN pending ELSE Append(pending, path)

RECURSIVE addAllPending(_, _)
addAllPending(pending, changes) ==
  IF changes = << >> THEN pending
  ELSE addAllPending(addPending(pending, Head(changes)), Tail(changes))

\* processPendingPaths that starts a drain while one is running
startDrainUnguarded(q) ==
  IF q.pendingPaths = << >> THEN q
  ELSE [q EXCEPT !.processingPaths = TRUE, !.paths = @ \o q.pendingPaths,
                 !.pendingPaths = << >>, !.active = @ + 1]

\* processPendingPaths() up to its first await: nothing when a drain is
\* running or nothing is pending, else the drain takes the pending paths
startDrain(q) ==
  IF q.processingPaths \/ q.pendingPaths = << >> THEN q
  ELSE [q EXCEPT !.processingPaths = TRUE, !.paths = q.pendingPaths,
                 !.pendingPaths = << >>, !.active = @ + 1]

\* the end of processPendingPaths that does not look at pendingPaths again
endDrainNoRestart(q) ==
  [q EXCEPT !.processingPaths = FALSE, !.path = "", !.active = @ - 1]

\* the end of processPendingPaths after its loop: the flag is cleared and
\* the drain starts again when paths were notified meanwhile
endDrain(q) ==
  LET q1 == [q EXCEPT !.processingPaths = FALSE, !.path = "", !.active = @ - 1]
  IN  IF q1.pendingPaths # << >> THEN startDrain(q1) ELSE q1

\* the paths one callback of the watcher can report: one or two watched paths
ChangeLists(d) ==
  LET ps == {p \in EventPaths \cap world : watched(d, p)}
  IN  {<<p>> : p \in ps} \cup {c \in ps \X ps : c[1] # c[2]}

\* handleHelperEvent for a sourceChanged event; the watcher flagged the
\* paths of `missing` as removed and writes a fileMissing event for each next
SourceChanged ==
  \E changes \in ChangeLists(db) :
    \E missing \in {<< >>} \cup {<<p>> : p \in Range(changes)} :
      /\ queue' = startDrain([queue EXCEPT
                                !.pendingPaths = addAllPending(@, changes),
                                !.burst = "", !.handled = 0])
      /\ last' = [op |-> "helperEvent", event |-> "sourceChanged", missing |-> missing]
      /\ UNCHANGED <<clock, world, db, tasks, sweep, helper>>

\* handleHelperEvent for the fileMissing event that follows a sourceChanged
\* event reporting the same path
FileMissing ==
  /\ last.op = "helperEvent"
  /\ last.missing # << >>
  /\ LET path == Head(last.missing)
     IN  /\ queue' = startDrain([queue EXCEPT
                                   !.pendingPaths = addPending(@, path),
                                   !.burst = path, !.handled = 0])
         /\ last' = [op |-> "helperEvent", event |-> "fileMissing",
                     missing |-> Tail(last.missing)]
  /\ UNCHANGED <<clock, world, db, tasks, sweep, helper>>

\* one round of the loop of processPendingPaths: handleSourcePathChange(path)
\* for the next path of the drain, up to the first await after its stat
DrainNext ==
  /\ queue.active > 0
  /\ queue.paths # << >>
  /\ tasks["drain"].pc = "idle"
  /\ LET path == Head(queue.paths)
     IN  /\ queue' = [queue EXCEPT !.paths = Tail(@), !.path = path,
                                   !.handled = IF path = queue.burst THEN @ + 1 ELSE @]
         /\ \E kind \in StatKinds(path) : ChangeHandle(path, kind)
  /\ UNCHANGED <<clock, world, sweep, helper>>

(***************************************************************************)
(* The facet schema and the facet values of a family                       *)
(***************************************************************************)
FacetValue(key) == [key |-> key, displayName |-> key]

FacetColumn(key, displayName, type, values) ==
  [key |-> key, displayName |-> displayName, type |-> type, values |-> values]

\* the schema files read at startup: any JSON text with a columns array is
\* taken as it is
Schemas ==
  {[columns |-> columns] : columns \in
     {<< >>,
      <<FacetColumn("c", "C", "single", <<FacetValue("x"), FacetValue("y")>>)>>,
      <<FacetColumn("c", "C", "multi", <<FacetValue("x"), FacetValue("y")>>)>>,
      <<FacetColumn("c", "C2", "single", <<FacetValue("x")>>)>>,
      <<FacetColumn("c", "C", "boolean", << >>)>>,
      <<FacetColumn("c", "C", "boolean", <<FacetValue("x"), FacetValue("y")>>)>>,
      <<FacetColumn("c", "C", "multi", <<FacetValue("x")>>),
        FacetColumn("c", "C", "multi", <<FacetValue("y")>>)>>,
      <<FacetColumn("b", "B", "boolean", << >>),
        FacetColumn("c", "C", "single", <<FacetValue("x")>>)>>}}

\* the lists of value ids the renderer sends
ValueIdLists ==
  {<< >>} \cup {<<a>> : a \in 1 .. MaxFacetValueId}
          \cup {<<a, b>> : a, b \in 1 .. MaxFacetValueId}

\* syncFacetSchema with the schema file of the library
SyncFacetSchema ==
  \E schema \in Schemas :
    LET d1 == syncFacetSchema(db, schema)
    IN  /\ sweep.pc = "idle"
        /\ \A q \in Slots : tasks[q].pc = "idle"
        /\ d1.seq.facet_values <= MaxFacetValueId
        /\ db' = d1
        /\ last' = [op |-> "syncFacetSchema", schema |-> schema]
        /\ UNCHANGED <<clock, world, tasks, queue, sweep, helper>>

\* the renderer sets the facet values of a family
SetFamilyFacetValues ==
  \E familyId \in {g.id : g \in db.families} \cup {0} : \E valueIds \in ValueIdLists :
    LET r == setFamilyFacetValues(db, familyId, valueIds)
    IN  /\ sweep.pc = "idle"
        /\ \A q \in Slots : tasks[q].pc = "idle"
        /\ db' = r.db
        /\ last' = [op |-> "setFamilyFacetValues", familyId |-> familyId,
                    threw |-> r.threw]
        /\ UNCHANGED <<clock, world, tasks, queue, sweep, helper>>

\* removeSource with the id of a stored source or with an id no source has
RemoveSource ==
  \E id \in {src.id : src \in db.sources} \cup {0} :
    LET r == removeSource(db, id)
    IN  /\ sweep.pc = "idle"
        /\ \A q \in Slots : tasks[q].pc = "idle"
        /\ r.threw \/ db.seq.sources < MaxSourceId
        /\ db' = r.db
        /\ last' = [op |-> "removeSource", id |-> id, threw |-> r.threw]
        /\ UNCHANGED <<clock, world, tasks, queue, sweep, helper>>

\* the loop of processPendingPaths is over
DrainEnd ==
  /\ queue.active > 0
  /\ queue.paths = << >>
  /\ tasks["drain"].pc = "idle"
  /\ queue' = endDrain(queue)
  /\ last' = [op |-> "env"]
  /\ UNCHANGED <<clock, world, db, tasks, sweep, helper>>

Handlers ==
  \/ ChangeStart
  \/ FileScan
  \/ SourcesAdd
  \/ SourcesScan
  \/ FacesSetActivated
  \/ \E s \in Slots : ScanWalkFails(s)
  \/ \E s \in Slots : ScanFile(s)
  \/ \E s \in Slots : ScanEmpty(s)
  \/ \E s \in Slots : MissingStep(s)

Next == Tick \/ Handlers

\* the renderer's requests alone: the watcher delivers no notification
Requests ==
  \/ Tick
  \/ SourcesAdd
  \/ SourcesScan
  \/ FacesSetActivated
  \/ \E s \in Slots : ScanWalkFails(s)
  \/ \E s \in Slots : ScanFile(s)
  \/ \E s \in Slots : ScanEmpty(s)
  \/ \E s \in Slots : MissingStep(s)

\* the watcher's notifications and the drain loop, with sources:add
Drain ==
  \/ SourceChanged
  \/ FileMissing
  \/ DrainNext
  \/ DrainEnd
  \/ FileScan
  \/ SourcesAdd
  \/ \E s \in Slots : ScanWalkFails(s)
  \/ \E s \in Slots : ScanFile(s)
  \/ \E s \in Slots : ScanEmpty(s)
  \/ \E s \in Slots : MissingStep(s)

\* the start of the application with its sweep, the watcher's changes as
\* the drain loop handles them, and the renderer's requests
Startup ==
  \/ WhenReady
  \/ SweepStep
  \/ ChangeStart
  \/ FileScan
  \/ SourcesAdd
  \/ FacesSetActivated
  \/ \E s \in Slots : ScanWalkFails(s)
  \/ \E s \in Slots : ScanFile(s)
  \/ \E s \in Slots : ScanEmpty(s)
  \/ \E s \in Slots : MissingStep(s)

\* one source directory with two files, time passing
Spec == InitIn(WorldTime) /\ [][Next]_vars

\* the same while no change notification arrives
SpecRequests == InitIn(WorldTime) /\ [][Requests]_vars

\* one source directory with a two-face file, the clock standing still
SpecAct == InitIn(WorldA) /\ [][Handlers]_vars

\* a source directory nested in another one
SpecNested == InitIn(WorldNested) /\ [][Next]_vars

\* two sibling source directories, the clock standing still
SpecPrefix == InitIn(WorldPrefix) /\ [][Handlers]_vars

\* one source directory with two files, the application starting again
SpecSweep == InitIn(WorldTime) /\ [][Startup]_vars

\* the sources added again and removed, time passing
Sources ==
  \/ Tick
  \/ SourcesAdd
  \/ RemoveSource
  \/ \E s \in Slots : ScanWalkFails(s)
  \/ \E s \in Slots : ScanFile(s)
  \/ \E s \in Slots : ScanEmpty(s)
  \/ \E s \in Slots : MissingStep(s)

SpecSources == InitIn(WorldNested) /\ [][Sources]_vars

\* the facet tables with the families of one source directory
Facets ==
  \/ SyncFacetSchema
  \/ SetFamilyFacetValues
  \/ SourcesAdd
  \/ \E s \in Slots : ScanWalkFails(s)
  \/ \E s \in Slots : ScanFile(s)
  \/ \E s \in Slots : ScanEmpty(s)

SpecFacets == InitIn(WorldQueue) /\ [][Facets]_vars

\* one source directory with one file: notifications and the drain loop
SpecDrain == InitIn(WorldQueue) /\ [][Drain]_vars

\* a step of the drain loop or of the handler it awaits
DrainRun ==
  \/ DrainNext
  \/ DrainEnd
  \/ FileScan
  \/ ScanWalkFails("drain")
  \/ ScanFile("drain")
  \/ ScanEmpty("drain")
  \/ MissingStep("drain")

\* DrainRun is enabled: a processPendingPaths call is in its loop
DrainReady == queue.active > 0

\* what a step of DrainRun changes: the handler the loop awaits moves on, the
\* loop takes its next path, or the loop ends
DrainStep ==
  \/ tasks'["drain"] # tasks["drain"]
  \/ /\ queue.paths # << >>
     /\ queue'.paths = Tail(queue.paths)
     /\ queue'.path = Head(queue.paths)
  \/ /\ queue.active > 0
     /\ queue.paths = << >>
     /\ tasks["drain"].pc = "idle"
     /\ queue' = endDrain(queue)

\* the same when every await of the drain loop settles and the event loop
\* runs the continuation: weak fairness of DrainRun, written with its
\* enabling condition DrainReady and its steps DrainStep, and of the end of
\* the loop
SpecDrainFair ==
  SpecDrain /\ WF_vars(DrainEnd) /\ ([]<>(~DrainReady) \/ []<><<DrainStep>>_vars)

(***************************************************************************)
(* Activation: setFaceActivated and the faces:setActivated handler         *)
(***************************************************************************)
fileOfFace(d, r) == CHOOSE f \in d.font_files : f.id = r.file_id

activeFaceCount(d, fileId) ==
  Cardinality({r \in d.faces : r.file_id = fileId /\ r.activated_bool = 1})

\* the faces setFaceActivated does not normalise to false
activatable(d) ==
  {r \in d.faces : r.install_supported_bool = 1 /\ fileOfFace(d, r).status = "ok"}

\* C1: on installable faces of ok files, a setFaceActivated call returns
\* shouldRegister = true only when that call takes the file's count of
\* active faces from 0 to 1; it returns false when the count stays above 0
\* or stays 0, whatever the flag of the targeted face was before.
C1_RegisterOnlyOnZeroToOne ==
  \A r \in activatable(db) : \A activated \in BOOLEAN :
    LET u == setFaceActivated(db, r.id, activated)
    IN  u.ret.shouldRegister =>
          /\ activeFaceCount(db, r.file_id) = 0
          /\ activeFaceCount(u.db, r.file_id) = 1

\* C2: setFaceActivated(id, false) on an installable face of an ok file
\* returns shouldUnregister = true exactly when the call takes the file's
\* count of active faces from a positive value to zero.
C2_UnregisterExactlyOnDropToZero ==
  \A r \in activatable(db) :
    LET u == setFaceActivated(db, r.id, FALSE)
    IN  u.ret.shouldUnregister <=>
          /\ activeFaceCount(db, r.file_id) > 0
          /\ activeFaceCount(u.db, r.file_id) = 0

\* C3: a faces:setActivated request, on or off, for a face that is not
\* installable or whose file is not ok is accepted, leaves the stored flag
\* of that face false, returns activated, shouldRegister and
\* shouldUnregister false, sends no helper request and replies
\* activated: false.
C3_IneligibleNormalisedToFalse ==
  \A r \in db.faces \ activatable(db) : \A activated \in BOOLEAN :
    LET h == facesSetActivated(db, r.id, activated)
    IN  /\ h.update # null
        /\ \E q \in h.db.faces : q.id = r.id /\ q.activated_bool = 0
        /\ ~h.update.activated
        /\ ~h.update.shouldRegister
        /\ ~h.update.shouldUnregister
        /\ h.os = << >>
        /\ h.reply = [activated |-> FALSE]

\* a request for a stored face has just been handled while every stored
\* face is not installable or of a file that is not ok, one of them of a
\* file in error
C3_Witness ==
  /\ last.op = "faces:setActivated"
  /\ last.found
  /\ db.faces # {}
  /\ activatable(db) = {}
  /\ \E r \in db.faces : fileOfFace(db, r).status = "error"

(***************************************************************************)
(* Marking files missing                                                   *)
(***************************************************************************)
facesOfPath(d, path) ==
  {r \in d.faces : \E f \in d.font_files : f.path = path /\ f.id = r.file_id}

\* the file at path is recorded missing and none of its faces is activated
missingAndInactive(d, path) ==
  /\ \E f \in d.font_files : f.path = path /\ f.status = "missing"
  /\ \A r \in facesOfPath(d, path) : r.activated_bool = 0

\* C4: markFileMissing(path) returns true exactly when a font_files row
\* has that very path; then the row's status is missing and all faces of
\* the file are deactivated afterwards; when it returns false the store is
\* unchanged.
C4_MarkFileMissingContract ==
  \A path \in EventPaths :
    LET m == markFileMissing(db, path, clock)
    IN  /\ m.ret <=> \E f \in db.font_files : f.path = path
        /\ m.ret => missingAndInactive(m.db, path)
        /\ ~m.ret => m.db = db

\* handleMissingPath has just marked a file with faces missing through
\* markFileMissing
C4_Witness ==
  /\ last.op = "handleMissingPath"
  /\ last.missing
  /\ facesOfPath(db, last.path) # {}
  /\ missingAndInactive(db, last.path)

\* C5: for a source directory prefix, markMissingUnderPath(prefix) marks
\* the files under that directory that are not yet missing as missing,
\* deactivates their faces and returns exactly their paths, no more and
\* no fewer.
C5_MarksExactlyFilesUnderPrefix ==
  \A src \in db.sources :
    LET u == markMissingUnderPath(db, src.path, clock)
        under == {f.path : f \in {g \in db.font_files :
                    underDir(g.path, src.path) /\ g.status # "missing"}}
    IN  /\ Range(u.ret) = under
        /\ \A path \in under : missingAndInactive(u.db, path)

(***************************************************************************)
(* Rescans: upsertScanResult as scanSource and scanFilePath call it        *)
(***************************************************************************)
rowOfPath(d, path) == CHOOSE f \in d.font_files : f.path = path

familyOf(d, r) == CHOOSE g \in d.families : g.id = r.family_id

\* the ids scanSource and scanFilePath can pass for a file: those of the
\* sources whose directory holds it
sourceIdsFor(d, path) == {src.id : src \in {x \in d.sources : underDir(path, x.path)}}

\* what a face row says about the face, apart from its id and its flag
faceContent(d, path) ==
  {[index |-> r.index_in_collection, style |-> r.style_name, family |-> r.family_id,
    preview |-> r.preview_supported_bool, install |-> r.install_supported_bool] :
     r \in facesOfPath(d, path)}

\* the faces stored for path are those of the list `faces`
storedAre(d, path, faces) ==
  /\ Cardinality(facesOfPath(d, path)) = Len(faces)
  /\ \A i \in DOMAIN faces : \E r \in facesOfPath(d, path) :
        /\ r.index_in_collection = faces[i].index
        /\ r.style_name = faces[i].styleName
        /\ familyOf(d, r).family_key = normalizeFamilyKey(faces[i].familyName)

\* the rescans of ok files whose introspection result is the stored one:
\* P(d, path, d2) holds for the store d2 each of them leaves
ForIdenticalRescans(P(_, _, _)) ==
  \A path \in Files : \A faces \in FacesOf(path) : \A stats \in StatsOf(path) :
    \A sourceId \in sourceIdsFor(db, path) :
      (statusOf(db, path) = "ok" /\ storedAre(db, path, faces)) =>
        P(db, path, upsertScanResult(db, path, sourceId, extOf(path), stats,
                                     [path |-> path, faces |-> faces], clock))

OnlyLastSeenDiffers(d, path, d2) ==
  LET f == rowOfPath(d, path)
      g == rowOfPath(d2, path)
  IN  /\ g = [f EXCEPT !.last_seen_at = g.last_seen_at]
      /\ facesOfPath(d2, path) = facesOfPath(d, path)

ContentKept(d, path, d2) ==
  LET f == rowOfPath(d, path)
      g == rowOfPath(d2, path)
  IN  /\ g = [f EXCEPT !.last_seen_at = g.last_seen_at, !.source_id = g.source_id,
                        !.file_size = g.file_size, !.mtime = g.mtime]
      /\ Cardinality(facesOfPath(d2, path)) = Cardinality(facesOfPath(d, path))
      /\ faceContent(d2, path) = faceContent(d, path)
      /\ \A r \in facesOfPath(d2, path) :
            /\ r.activated_bool = 0
            /\ familyOf(d2, r).family_key = familyOf(d, r).family_key

\* C6 as stated: rescanning an ok file with the introspection result it
\* had leaves every stored field of the file and of its faces as it was,
\* last_seen_at excepted.
C6_RescanChangesOnlyLastSeen == ForIdenticalRescans(OnlyLastSeenDiffers)

\* C6 amended: such a rescan keeps the file's row id, path, extension and
\* status ok and stores faces of the same number, index, style, family
\* and capability flags; last_seen_at, the size and mtime of the new stat,
\* the source attribution, the ids of the face rows and their activation
\* flags, which are all false afterwards, may differ.
C6_RescanKeepsContent == ForIdenticalRescans(ContentKept)

\* a scan has just rewritten the faces of a file that was ok, with new row
\* ids, at a later time than the file's first scan
C6_Witness ==
  /\ last.op \in {"scanSource.file", "scanSource", "scanFilePath"}
  /\ last.file # null
  /\ last.file.outcome = "upsert"
  /\ last.file.was = "ok"
  /\ storedAre(db, last.file.path, last.file.faces)
  /\ rowOfPath(db, last.file.path).last_seen_at > 0
  /\ \A r \in facesOfPath(db, last.file.path) : r.id > Len(last.file.faces)

\* the faces of the other files
facesElsewhere(d, path) == d.faces \ facesOfPath(d, path)

\* C7: a successful scan of a file leaves, for that file, exactly the faces
\* the scan reported, in new rows (every face row the file had is gone),
\* all with activation flag false whatever the flags were, and leaves the
\* faces of the other files as they were.
C7_FacesReplacedByReported ==
  \A path \in Files : \A faces \in FacesOf(path) : \A stats \in StatsOf(path) :
    \A sourceId \in sourceIdsFor(db, path) :
      LET d2 == upsertScanResult(db, path, sourceId, extOf(path), stats,
                                 [path |-> path, faces |-> faces], clock)
      IN  /\ storedAre(d2, path, faces)
          /\ facesOfPath(d2, path) \cap db.faces = {}
          /\ \A r \in facesOfPath(d2, path) :
                r.activated_bool = 0 /\ \A q \in db.faces : q.id # r.id
          /\ facesElsewhere(d2, path) = facesElsewhere(db, path)

\* a scan has just replaced the faces of a file that was ok by the faces
\* it reported while a face of another file is activated
C7_Witness ==
  /\ last.op \in {"scanSource.file", "scanSource", "scanFilePath"}
  /\ last.file # null
  /\ last.file.outcome = "upsert"
  /\ last.file.was = "ok"
  /\ storedAre(db, last.file.path, last.file.faces)
  /\ \A r \in facesOfPath(db, last.file.path) : r.activated_bool = 0
  /\ \E r \in facesElsewhere(db, last.file.path) : r.activated_bool = 1

(***************************************************************************)
(* Failures during a scan and the detection of vanished files              *)
(***************************************************************************)
\* C8: when scanFile fails for a file that exists, the file is recorded
\* with status error, by scanSource and by scanFilePath alike, and never
\* with status missing; a later successful scan records it ok.
C8_IntrospectionFailureRecordsError ==
  /\ (/\ last.op \in {"scanSource.file", "scanSource"}
      /\ last.file # null
      /\ last.file.outcome = "error") => statusOf(db, last.file.path) = "error"
  /\ (/\ last.op = "scanFilePath"
      /\ last.outcome = "catch"
      /\ last.cause = "introspect") => statusOf(db, last.path) = "error"
  /\ (/\ last.op \in {"scanSource.file", "scanSource", "scanFilePath"}
      /\ last.file # null
      /\ last.file.outcome = "upsert") => statusOf(db, last.file.path) = "ok"

\* C9: scanSource does not reject because one file of the walk failed, at
\* its stat or at its introspection: it goes on and returns a result.
C9_ScanSourceSurvivesFileFailure ==
  (last.op = "scanSource" /\ last.threw) => last.cause \notin {"stat", "introspect"}

outsideEverySource(d, path) ==
  ~ \E src \in listSourcesRaw(d) : underDir(path, src.path)

\* C11: scanFilePath(path) is a no-op (returns {scanned: 0, missingPaths: []}
\* before any stat, introspection or store call) for every path that lies
\* outside every enabled source directory or has an unsupported extension
C11_OutsidePathsRejected ==
  \A path \in Files :
    (outsideEverySource(db, path) \/ extOf(path) \notin SUPPORTED_EXTENSIONS)
      => scanFilePathRejects(db, path)

(***************************************************************************)
(* The drain loop                                                          *)
(***************************************************************************)
\* this step starts a drain: processPendingPaths takes the pending paths
StartsDrain == Len(queue'.paths) > Len(queue.paths)

\* C12: at most one processPendingPaths call is between setting and clearing
\* processingPaths, whatever notifications arrive while a drain awaits, and
\* a drain starts only when the paths of the drain before it have all been
\* handled to the end
C12_OneDrainAtATime ==
  [][/\ queue'.active <= 1
     /\ queue'.processingPaths <=> (queue'.active = 1)
     /\ StartsDrain =>
          /\ queue.paths = << >>
          /\ tasks["drain"].pc = "idle"
          /\ queue'.paths = addAllPending(<< >>, queue'.paths)]_vars

\* a notification arrived while the drain was awaiting a scan and waits
C12_Witness ==
  /\ queue.processingPaths
  /\ tasks["drain"].pc # "idle"
  /\ queue.pendingPaths # << >>
  /\ last.op = "helperEvent"

\* C13: every path notified by the watcher, also one notified while a drain
\* is running, is taken by a drain and then passed to handleSourcePathChange
C13_EveryNotifiedPathIsHandled ==
  \A p \in WorldQueue :
    /\ (p \in Range(queue.pendingPaths)) ~> (p \in Range(queue.paths))
    /\ (p \in Range(queue.paths)) ~> (queue.path = p /\ p \notin Range(queue.paths))

\* the fileMissing notice arrived while the drain held the same path; the
\* next drain has passed the path to handleSourcePathChange a second time
C13_Witness ==
  /\ queue.burst # ""
  /\ queue.path = queue.burst
  /\ queue.handled = 2

\* the last step was a failure inside the handler the drain loop awaits:
\* scanSource rejected, or scanFilePath ran its catch block
drainFailed ==
  \/ last.op = "scanSource" /\ last.threw /\ last.caught
  \/ last.op = "scanFilePath" /\ last.outcome = "catch"

\* C14: a failure while one queued path is handled leaves the drain going:
\* the step keeps the other paths of the drain and the pending ones, the
\* loop is still running with processingPaths set, the other paths of the
\* same drain are handled, the loop reaches its end where processingPaths is
\* cleared, and paths notified meanwhile are taken by the next drain
C14_FailureDoesNotStopTheDrain ==
  /\ [][drainFailed' =>
         /\ queue'.paths = queue.paths
         /\ queue'.pendingPaths = queue.pendingPaths
         /\ queue'.processingPaths /\ queue'.active = 1
         /\ tasks'["drain"].pc \in {"idle", "missing"}]_vars
  /\ drainFailed ~> (queue.path = "")
  /\ \A p \in WorldQueue :
       /\ (drainFailed /\ p \in Range(queue.paths))
            ~> (queue.path = p /\ p \notin Range(queue.paths))
       /\ (drainFailed /\ p \in Range(queue.pendingPaths)) ~> (p \in Range(queue.paths))

\* a scan failed while another path of the same drain was waiting
C14_Witness ==
  /\ drainFailed
  /\ queue.paths # << >>
  /\ queue.processingPaths

\* C15: the notifications the watcher writes for one change of one path (a
\* sourceChanged entry, then the fileMissing notice for the same path) lead
\* to one handling of that path: unless a further notification arrives, the
\* path is passed to handleSourcePathChange at most once
C15_BurstHandledOnce == queue.handled <= 1

(***************************************************************************)
(* Missing paths and the OS registration                                   *)
(***************************************************************************)
\* a handler is at its loop over the missingPaths of a scan and this step
\* is its call of handleMissingPath for the next of them
missingLoopStep(s) == tasks[s].pc = "missing" /\ tasks'[s] # tasks[s]

sweptPaths(d) ==
  {f.path : f \in {g \in d.font_files :
                     /\ g.status = "ok"
                     /\ \E r \in d.faces : r.file_id = g.id /\ r.install_supported_bool = 1}}

activeCountOfPath(d, path) ==
  Cardinality({r \in d.faces : fileOfFace(d, r).path = path /\ r.activated_bool = 1})

\* a whole sweep on the store as it is, the helper working
cleanSweep(d, registered) == reconcileActivationState(listActivationFiles(d), registered, {})

\* C17: when the OS still has a file registered that the store has marked
\* missing, a sweep with a working helper sends unregisterFont for it
C17_SweepUnregistersMissingFiles ==
  \A f \in db.font_files :
    (f.status = "missing" /\ (\E r \in db.faces : r.file_id = f.id))
      => unregisterRequest(f.path) \in Range(cleanSweep(db, {f.path}).os)

\* C18: for every file with an installable face and status ok a sweep sends
\* registerFont iff the count of active faces is positive and the OS has the
\* file unregistered, unregisterFont iff the count is 0 and the OS has it
\* registered; after a sweep without failures the OS has the file registered
\* iff the count is positive, and a second sweep sends neither command
C18_SweepRepairsDrift ==
  \A registered \in SUBSET sweptPaths(db) :
    LET first == cleanSweep(db, registered)
        second == cleanSweep(db, first.registered)
    IN  \A path \in sweptPaths(db) :
          LET count == activeCountOfPath(db, path)
          IN  /\ registerRequest(path) \in Range(first.os)
                   <=> (count > 0 /\ path \notin registered)
              /\ unregisterRequest(path) \in Range(first.os)
                   <=> (count = 0 /\ path \in registered)
              /\ path \in first.registered <=> count > 0
              /\ registerRequest(path) \notin Range(second.os)
              /\ unregisterRequest(path) \notin Range(second.os)

\* the sweep found an active file the OS had lost and registered it
C18_Witness ==
  /\ last.op = "reconcile"
  /\ last.os = <<isFontRegisteredRequest(last.path), registerRequest(last.path)>>
  /\ ~last.failed
  /\ last.path \in sweptPaths(db)
  /\ activeCountOfPath(db, last.path) > 0

\* a step of the loop of reconcileActivationState
sweepLoopStep == sweep.pc = "run" /\ sweep' # sweep

\* the number of places of a sequence of requests that hold request
timesSent(os, request) == Cardinality({i \in DOMAIN os : os[i] = request})

\* C19: a request of the sweep that fails is neither propagated nor sent
\* again: whichever requests the helper rejects, a whole sweep asks
\* isFontRegistered once for every file it looks at and sends each other
\* request at most once; a round of the loop writes nothing to the store,
\* sends each of its requests once, goes on to the next entry of the
\* snapshot, and ends the sweep only after the last entry
C19_SweepSwallowsFailures ==
  /\ [](\A registered \in SUBSET sweptPaths(db) :
          \A failing \in SUBSET UNION {sweepRequests(p) : p \in sweptPaths(db)} :
            LET whole == reconcileActivationState(listActivationFiles(db), registered, failing)
            IN  /\ \A p \in sweptPaths(db) :
                     /\ timesSent(whole.os, isFontRegisteredRequest(p)) = 1
                     /\ timesSent(whole.os, registerRequest(p)) <= 1
                     /\ timesSent(whole.os, unregisterRequest(p)) <= 1
                /\ \A i \in DOMAIN whole.os : whole.os[i].path \in sweptPaths(db))
  /\ [][sweepLoopStep =>
          /\ db' = db
          /\ last'.op = "reconcile"
          /\ last'.path = sweep.entries[sweep.i].filePath
          /\ \A request \in Range(last'.os) : timesSent(last'.os, request) = 1
          /\ sweep' = IF sweep.i < Len(sweep.entries)
                      THEN [sweep EXCEPT !.i = @ + 1] ELSE NoSweep]_vars

\* a request of the sweep failed and the sweep went on to its next entry
C19_Witness ==
  /\ last.op = "reconcile"
  /\ last.failed
  /\ sweep.pc = "run"
  /\ sweep.i > 1
  /\ sweep.entries[sweep.i - 1].filePath = last.path

\* no handler is between two of its steps
handlersIdle == \A q \in Slots : tasks[q].pc = "idle"

\* C20: the sweep runs while the watcher's changes are handled, and when
\* all of it is over the command the sweep sent last for a file agrees with
\* the store: a file it registered has a positive count of active faces, a
\* file it unregistered has a count of 0
C20_SweepRaceIsHarmless ==
  (last.op = "reconcile" /\ ~last.failed /\ handlersIdle) =>
    /\ registerRequest(last.path) \in Range(last.os)
         => activeCountOfPath(db, last.path) > 0
    /\ unregisterRequest(last.path) \in Range(last.os)
         => activeCountOfPath(db, last.path) = 0

(***************************************************************************)
(* Failed helper requests of faces:setActivated                            *)
(***************************************************************************)
\* the stored flag of the face with this id
storedFlag(d, faceId) == (CHOOSE r \in d.faces : r.id = faceId).activated_bool

\* C21: when the registerFont or unregisterFont request of a
\* faces:setActivated call is answered with an error, is refused because the
\* helper is not running or is rejected because the helper exits, the
\* handler completes, replies with the activation value it wrote to the
\* store, and leaves the store as the call with a working helper leaves it
C21_RegistrationErrorsDoNotBlock ==
  \A r \in db.faces : \A activated \in BOOLEAN :
    \A outcome \in HelperOutcomes \ {"result"} :
      LET h == facesSetActivatedWith(db, r.id, activated, outcome)
          good == facesSetActivatedWith(db, r.id, activated, "result")
      IN  /\ h.completed
          /\ h.reply = good.reply
          /\ h.db = good.db
          /\ h.db = setFaceActivated(db, r.id, activated).db
          /\ storedFlag(h.db, r.id) = IF h.reply.activated THEN 1 ELSE 0
          /\ h.os # << >> => h.failed

\* a request of the handler failed and the face it activated is active in
\* the store
C21_Witness ==
  /\ last.op = "faces:setActivated"
  /\ last.found
  /\ last.failed
  /\ \E r \in db.faces : r.activated_bool = 1

(***************************************************************************)
(* The replacement of a file's faces and the readers of the store          *)
(***************************************************************************)
\* the ids of the face rows of the file at path
faceIdsOfPath(d, path) == {r.id : r \in facesOfPath(d, path)}

\* the files listActivationFiles returns
activationPaths(d) ==
  {listActivationFiles(d)[i].filePath : i \in DOMAIN listActivationFiles(d)}

\* C22: the handlers interleave at their awaits only, and upsertScanResult
\* has none: every step that replaces the face rows of a file leaves the
\* whole list the scan reported, so in every state the other operations can
\* read, a file with status ok has one of the lists its scans report, whole,
\* and listActivationFiles returns it
C22_FacesReplacedInOneStep ==
  /\ [](\A f \in db.font_files : f.status = "ok" =>
          /\ \E faces \in FacesOf(f.path) : storedAre(db, f.path, faces)
          /\ f.path \in activationPaths(db))
  /\ [][\A path \in Files :
          (faceIdsOfPath(db', path) # faceIdsOfPath(db, path)) =>
            /\ last'.file # null
            /\ last'.file.path = path
            /\ last'.file.outcome = "upsert"
            /\ storedAre(db', path, last'.file.faces)
            /\ faceIdsOfPath(db', path) \cap faceIdsOfPath(db, path) = {}]_vars

\* a scan that is still running has just replaced the two faces of a file
\* that was ok, and the next step may be a reader's
C22_Witness ==
  /\ last.op = "scanSource.file"
  /\ last.file # null
  /\ last.file.outcome = "upsert"
  /\ last.file.was = "ok"
  /\ Len(last.file.faces) = 2
  /\ storedAre(db, last.file.path, last.file.faces)
  /\ \E s \in Slots : tasks[s].pc # "idle"
  /\ sweep.pc = "idle"

(***************************************************************************)
(* The facet schema                                                        *)
(***************************************************************************)
\* the rows of the three facet tables
facetTables(d) == <<d.facet_columns, d.facet_values, d.family_facet_values>>

\* C23: a second syncFacetSchema with the schema of the call just made,
\* nothing else in between, changes no row of facet_columns, facet_values
\* and family_facet_values
C23_SyncIsIdempotent ==
  last.op = "syncFacetSchema" =>
    facetTables(syncFacetSchema(db, last.schema)) = facetTables(db)

\* the keys of the columns of a schema
schemaKeys(schema) == {schema.columns[i].key : i \in DOMAIN schema.columns}

\* the keys of the values a schema defines for the column with this key, a
\* boolean column that declares none defining its synthetic value
definedValueKeys(schema, key) ==
  UNION {{normalizedValues(schema.columns[i])[j].key :
            j \in DOMAIN normalizedValues(schema.columns[i])} :
         i \in {i \in DOMAIN schema.columns : schema.columns[i].key = key}}

\* the column a stored value belongs to
columnOfValue(d, v) == CHOOSE c \in d.facet_columns : c.id = v.column_id

\* the keys of the values stored for a column
storedValueKeys(d, columnId) ==
  {v.value_key : v \in {v \in d.facet_values : v.column_id = columnId}}

\* the stored value is one the schema defines for its column
retainedBy(d, schema, v) ==
  /\ columnOfValue(d, v).key \in schemaKeys(schema)
  /\ v.value_key \in definedValueKeys(schema, columnOfValue(d, v).key)

\* C24: after syncFacetSchema(schema) the stored columns are those of the
\* schema with its display names and types, the values stored for a column
\* are those the schema defines for it, the associations of the families to
\* values the schema does not define are gone, and the values it defines
\* keep their rows and the associations the families had to them
C24_TablesMatchTheSchema ==
  \A schema \in Schemas :
    LET d1 == syncFacetSchema(db, schema)
    IN  /\ {c.key : c \in d1.facet_columns} = schemaKeys(schema)
        /\ \A c \in d1.facet_columns :
             /\ \E i \in DOMAIN schema.columns :
                  /\ schema.columns[i].key = c.key
                  /\ schema.columns[i].displayName = c.display_name
                  /\ schema.columns[i].type = c.type
             /\ storedValueKeys(d1, c.id) = definedValueKeys(schema, c.key)
        /\ \A v \in db.facet_values :
             retainedBy(db, schema, v) <=> (\E w \in d1.facet_values : w.id = v.id)
        /\ d1.family_facet_values =
             {a \in db.family_facet_values :
                \E v \in db.facet_values : v.id = a.value_id /\ retainedBy(db, schema, v)}

\* C25: after every syncFacetSchema call every column of type boolean has
\* exactly one value row, whatever the schema declares for the column and
\* whatever the column was before
C25_BooleanColumnsHaveOneValue ==
  last.op = "syncFacetSchema" =>
    \A c \in db.facet_columns :
      c.type = "boolean" =>
        Cardinality({v \in db.facet_values : v.column_id = c.id}) = 1

(***************************************************************************)
(* The facet values of a family                                            *)
(***************************************************************************)
\* the values of the column that the family has selected
selectedIn(d, familyId, columnId) ==
  {a.value_id : a \in {a \in d.family_facet_values :
      /\ a.family_id = familyId
      /\ \E v \in d.facet_values : v.id = a.value_id /\ v.column_id = columnId}}

\* C26: whatever setFamilyFacetValues and syncFacetSchema calls were made,
\* every family has at most one selected value in every column of type single
C26_OneValuePerSingleColumn ==
  \A g \in db.families : \A c \in db.facet_columns :
    c.type = "single" => Cardinality(selectedIn(db, g.id, c.id)) <= 1

(***************************************************************************)
(* Sources                                                                 *)
(***************************************************************************)
\* the stored source with its enabled flag cleared
disabled(d, src) ==
  [d EXCEPT !.sources = {IF x = src THEN [x EXCEPT !.is_enabled = 0] ELSE x : x \in @}]

\* C27: the store has one source row per path; addSource(path) leaves one
\* row for the path and returns it enabled; on a path that is stored it
\* returns the row's id and creation time and changes no other row, so a
\* second addSource(path), at any later time, returns what the first
\* returned; a stored source that is disabled comes back enabled
C27_AddSourceIsIdempotentUpsert ==
  /\ \A s1, s2 \in db.sources : s1.path = s2.path => s1 = s2
  /\ \A path \in Dirs \cap world : \A now \in clock .. MaxClock :
       LET d1 == addSource(db, path, clock)
           first == sourceByPath(d1, path)
           d2 == addSource(d1, path, now)
       IN  /\ Cardinality({src \in d1.sources : src.path = path}) = 1
           /\ first.is_enabled = 1
           /\ \A src \in db.sources :
                IF src.path = path
                THEN first.id = src.id /\ first.created_at = src.created_at
                ELSE src \in d1.sources
           /\ d2 = d1
           /\ sourceByPath(d2, path) = first
  /\ \A src \in db.sources :
       LET d1 == addSource(disabled(db, src), src.path, clock)
       IN  /\ sourceByPath(d1, src.path) = [src EXCEPT !.is_enabled = 1]
           /\ d1.sources \ {sourceByPath(d1, src.path)} = db.sources \ {src}

\* sources:add has just called addSource for a directory that was added at
\* an earlier time, another source being stored
C27_Witness ==
  /\ tasks["ipc"].pc = "scan"
  /\ tasks["ipc"].scanStartedAt = clock
  /\ tasks["ipc"].seen = {}
  /\ Cardinality(db.sources) = 2
  /\ \E src \in db.sources :
       /\ src.id = tasks["ipc"].sourceId
       /\ src.created_at < clock

\* C28: removeSource(id) on a source that has font_files rows completes
\* without an error and removes the source row, the rows of font_files and
\* faces staying as they are
C28_RemoveSourceOrphansFiles ==
  (last.op = "removeSource" /\ \E f \in db.font_files : f.source_id = last.id) =>
    /\ ~last.threw
    /\ \A src \in db.sources : src.id # last.id

(***************************************************************************)
(* The identity of files and families                                      *)
(***************************************************************************)
\* C29: there is at most one font_files row per path; no step deletes a row
\* or changes the path or the id of one; a file marked missing that a scan
\* finds again is the same row, with status ok
C29_PathIdentifiesTheFile ==
  /\ [](\A f1, f2 \in db.font_files : f1.path = f2.path => f1 = f2)
  /\ [][\A f \in db.font_files :
          \E g \in db'.font_files : g.id = f.id /\ g.path = f.path]_vars
  /\ [][\A f \in db.font_files :
          (/\ f.status = "missing"
           /\ last'.op \in {"scanSource.file", "scanSource", "scanFilePath"}
           /\ last'.file # null
           /\ last'.file.path = f.path
           /\ last'.file.outcome = "upsert")
          => /\ \E g \in db'.font_files : g.path = f.path
             /\ \A g \in db'.font_files :
                  g.path = f.path => g.id = f.id /\ g.status = "ok"]_vars

\* a scan has just found a file again that was marked missing
C29_Witness ==
  /\ last.op \in {"scanSource.file", "scanSource", "scanFilePath"}
  /\ last.file # null
  /\ last.file.outcome = "upsert"
  /\ last.file.was = "missing"
  /\ rowOfPath(db, last.file.path).status = "ok"

\* the family names the scans report
FamilyNames ==
  UNION {{faces[i].familyName : i \in DOMAIN faces} :
         faces \in UNION {FacesOf(f) : f \in Files}}

\* the family stored under the key of this name
familyNamed(d, familyName) ==
  CHOOSE g \in d.families : g.family_key = normalizeFamilyKey(familyName)

\* the last face of the list whose family name has the key of face i's
lastOfFamily(faces, i) ==
  CHOOSE j \in DOMAIN faces :
    /\ normalizeFamilyKey(faces[j].familyName) = normalizeFamilyKey(faces[i].familyName)
    /\ \A k \in DOMAIN faces :
         normalizeFamilyKey(faces[k].familyName) = normalizeFamilyKey(faces[i].familyName)
           => k <= j

\* C30: there is one families row per family key, the key being the trimmed,
\* lower-cased display name; every face belongs to a stored family; no step
\* deletes a family or changes its id or key; names that differ in case or
\* surrounding whitespace only get the same row; after a scan the family of
\* each reported face is the row of its key, displayed under the name the
\* scan reported last for that key
C30_OneFamilyPerKey ==
  /\ [](/\ \A g1, g2 \in db.families : g1.family_key = g2.family_key => g1 = g2
        /\ \A g \in db.families : g.family_key = normalizeFamilyKey(g.family_name_display)
        /\ \A r \in db.faces : \E g \in db.families : g.id = r.family_id
        /\ \A n1, n2 \in FamilyNames :
             normalizeFamilyKey(n1) = normalizeFamilyKey(n2) =>
               LET d1 == upsertFamily(db, normalizeFamilyKey(n1), n1)
                   d2 == upsertFamily(d1, normalizeFamilyKey(n2), n2)
               IN  /\ familyNamed(d2, n2).id = familyNamed(d1, n1).id
                   /\ familyNamed(d2, n1).family_name_display = n2
                   /\ Cardinality(d2.families) = Cardinality(d1.families))
  /\ [][\A g \in db.families :
          \E h \in db'.families : h.id = g.id /\ h.family_key = g.family_key]_vars
  /\ [][(/\ last'.op \in {"scanSource.file", "scanSource", "scanFilePath"}
         /\ last'.file # null
         /\ last'.file.outcome = "upsert")
        => LET faces == last'.file.faces
           IN  \A i \in DOMAIN faces :
                 LET g == familyNamed(db', faces[i].familyName)
                 IN  /\ g.family_name_display = faces[lastOfFamily(faces, i)].familyName
                     /\ \E r \in facesOfPath(db', last'.file.path) :
                          /\ r.index_in_collection = faces[i].index
                          /\ r.family_id = g.id]_vars

\* a rescan has just reported a family under a name that differs from its
\* key in case and whitespace, another family being stored
C30_Witness ==
  /\ last.op \in {"scanSource.file", "scanSource", "scanFilePath"}
  /\ last.file # null
  /\ last.file.outcome = "upsert"
  /\ last.file.was = "ok"
  /\ last.file.faces[1].familyName = " fo"
  /\ familyNamed(db, "Fo").family_name_display = " fo"
  /\ familyNamed(db, "Fo").id = 1
  /\ Cardinality(db.families) = 2
  /\ db.seq.faces >= 3

(***************************************************************************)
(* The routing of a notified path                                          *)
(***************************************************************************)
\* the handling of a path's notification ended in the missing-path
\* marking of that path after the stat of the path had succeeded: the catch
\* of scanFilePath after scanFile failed, or the catch of
\* handleSourcePathChange after the stat of a listed file failed
markedMissingThoughPresent ==
  \/ /\ last.op = "scanFilePath" /\ last.outcome = "catch"
     /\ last.cause = "introspect" /\ last.ret.missingPaths # << >>
  \/ last.op = "scanSource" /\ last.threw /\ last.caught /\ last.cause = "stat"

\* C31: the handling of a notified path marks the path missing, as a file or
\* as a directory prefix, only when the stat of that path has failed
C31_MissingOnlyWhenStatFails == ~markedMissingThoughPresent


(***************************************************************************)
(* Active faces                                                            *)
(***************************************************************************)
\* C32: every face whose activated flag is set belongs to a file whose
\* status is ok and whose extension is installable
C32_ActiveFacesAreOnOkInstallableFiles ==
  \A r \in db.faces :
    r.activated_bool = 1 =>
      /\ fileOfFace(db, r).status = "ok"
      /\ extOf(fileOfFace(db, r).path) \in INSTALLABLE_EXTENSIONS


(***************************************************************************)
(* The OS follows the store when a file's active faces are gone            *)
(***************************************************************************)
\* a scan has completed, with no path left for its caller to hand to
\* handleMissingPath, right after it replaced the faces of a file that had an
\* activated face: the file's active count went from positive to zero and no
\* handler step sends an unregisterFont for it
rescanDroppedSilently ==
  /\ last.op \in {"scanSource", "scanFilePath"}
  /\ last.file # null
  /\ last.file.outcome = "upsert"
  /\ last.file.active
  /\ last.ret.missingPaths = << >>
  /\ activeCountOfPath(db, last.file.path) = 0

\* C33: an operation that takes a file's count of active faces from positive
\* to zero (here a rescan that replaces the faces) sends the OS an unregister
\* command for the file before it completes
C33_DropToZeroUnregisters == ~rescanDroppedSilently


(***************************************************************************)
(* markMissingUnderPath and the neighbours of the directory                *)
(***************************************************************************)
\* C34: markMissingUnderPath(prefix) for a directory changes only the files
\* inside that directory: a file outside it, such as one in a sibling
\* directory whose name begins with the same characters, keeps its row and
\* its faces' flags and is not returned
C34_SiblingsAreLeftAlone ==
  \A prefix \in Dirs :
    LET u == markMissingUnderPath(db, prefix, clock)
    IN  \A f \in db.font_files :
          ~underDir(f.path, prefix) =>
            /\ f \in u.db.font_files
            /\ facesOfPath(u.db, f.path) = facesOfPath(db, f.path)
            /\ f.path \notin Range(u.ret)


(***************************************************************************)
(* The request channel: handlers sending requests, the helper answering,   *)
(* the main process reading the answers, the helper process ending         *)
(***************************************************************************)
\* a handler calls sendHelperRequest({ id: Date.now(), ... })
SendRequest ==
  \E c \in Callers :
    /\ helper.calls[c].pc # "waiting"
    /\ helper' = sendHelperRequestFrom(helper, c, clock)
    /\ last' = [op |-> "sendHelperRequest"]
    /\ UNCHANGED <<clock, world, db, tasks, queue, sweep>>

\* helper:ping: await startHelper(), then sendHelperRequest of a ping
HelperPing ==
  \E c \in Callers :
    /\ helper.calls[c].pc # "waiting"
    /\ helper' = sendHelperRequestFrom(startHelper(helper), c, clock)
    /\ last' = [op |-> "helper:ping"]
    /\ UNCHANGED <<clock, world, db, tasks, queue, sweep>>

\* the helper handles the next line of its standard input
HelperResponds ==
  /\ helper.helperProcess
  /\ helper.stdin # << >>
  /\ Len(helper.stdout) < MaxLines
  /\ \E error \in BOOLEAN : helper' = helperResponds(helper, error)
  /\ last' = [op |-> "helper"]
  /\ UNCHANGED <<clock, world, db, tasks, queue, sweep>>

\* the stdout listener passes the next response line to handleHelperLine
HelperLine ==
  /\ helper.stdout # << >>
  /\ helper' = handleHelperLine([helper EXCEPT !.stdout = Tail(@)], Head(helper.stdout))
  /\ last' = [op |-> "handleHelperLine"]
  /\ UNCHANGED <<clock, world, db, tasks, queue, sweep>>

\* the helper process ends
HelperExit ==
  /\ helper.helperProcess
  /\ helper' = helperExited(helper)
  /\ last' = [op |-> "exit"]
  /\ UNCHANGED <<clock, world, db, tasks, queue, sweep>>

Channel ==
  \/ Tick
  \/ SendRequest
  \/ HelperPing
  \/ HelperResponds
  \/ HelperLine
  \/ HelperExit

\* two handlers using the helper, time passing
SpecHelper == InitIn(WorldQueue) /\ [][Channel]_vars

\* the handlers whose promise is not settled
outstanding(h) == {c \in Callers : h.calls[c].pc = "waiting"}

\* C35: no two outstanding requests have the same id, so every outstanding
\* request keeps its entry in helperPending and no handler's promise is
\* resolved or rejected with the response to another handler's request
C35_RequestsKeepTheirIdentity ==
  /\ \A c \in outstanding(helper) : \A e \in outstanding(helper) :
       c # e => helper.calls[c].id # helper.calls[e].id
  /\ \A c \in outstanding(helper) :
       [id |-> helper.calls[c].id, caller |-> c] \in helper.helperPending
  /\ \A c \in Callers :
       helper.calls[c].pc \in {"resolved", "rejected"} => helper.calls[c].got \in {"", c}

\* C36: once the helper process has ended, no request is outstanding,
\* helperPending is empty, and sendHelperRequest throws at once
C36_ExitSettlesEveryRequest ==
  ~helper.helperProcess =>
    /\ outstanding(helper) = {}
    /\ helper.helperPending = {}
    /\ \A c \in Callers :
         sendHelperRequestFrom(helper, c, clock).calls[c].pc = "threw"


(***************************************************************************)
(* Files recorded ok                                                       *)
(***************************************************************************)
\* C37: every file recorded with status ok has at least one face row
C37_OkFilesHaveFaces ==
  \A f \in db.font_files : f.status = "ok" => facesOfPath(db, f.path) # {}


(***************************************************************************)
(* setFamilyFacetValues when an insert is rejected                         *)
(***************************************************************************)
\* C38: a setFamilyFacetValues call whose insert is rejected, because the
\* family id or one of the value ids does not exist, leaves the
\* family_facet_values rows as they were before the call
C38_RejectedCallChangesNothing ==
  \A familyId \in {g.id : g \in db.families} \cup {0} : \A valueIds \in ValueIdLists :
    LET r == setFamilyFacetValues(db, familyId, valueIds)
    IN  r.threw => r.db.family_facet_values = db.family_facet_values


(***************************************************************************)
(* Facet assignments and the scans                                         *)
(***************************************************************************)
\* the facet tables while the files of one source directory are scanned,
\* rescanned, reported changed or gone
Assigned ==
  \/ SyncFacetSchema
  \/ SetFamilyFacetValues
  \/ SourcesAdd
  \/ ChangeStart
  \/ FileScan
  \/ \E s \in Slots : ScanWalkFails(s)
  \/ \E s \in Slots : ScanFile(s)
  \/ \E s \in Slots : ScanEmpty(s)

SpecAssigned == InitIn(WorldQueue) /\ [][Assigned]_vars

\* every family of d is a family of e, with its id and its key
familiesKept(d, e) ==
  \A g \in d.families : \E k \in e.families : k.id = g.id /\ k.family_key = g.family_key

\* C39: no step of a scan, of a rescan of one file or of a missing-path
\* marking changes a family_facet_values row or the id and key of an existing
\* family, and neither do markFileMissing and markMissingUnderPath on any
\* path nor the tail of scanSource for any source and starting time
C39_ScansKeepFacetAssignments ==
  /\ [][last'.op \notin {"syncFacetSchema", "setFamilyFacetValues"} =>
          /\ db'.family_facet_values = db.family_facet_values
          /\ familiesKept(db, db')]_vars
  /\ [](\A path \in EventPaths :
          LET m == markFileMissing(db, path, clock).db
              u == markMissingUnderPath(db, path, clock).db
          IN  /\ m.family_facet_values = db.family_facet_values
              /\ u.family_facet_values = db.family_facet_values
              /\ familiesKept(db, m)
              /\ familiesKept(db, u))
  /\ [](\A src \in db.sources : \A scanStartedAt \in 0 .. MaxClock :
          LET t == markUnseen(db, src.id, scanStartedAt, clock).db
          IN  /\ t.family_facet_values = db.family_facet_values
              /\ familiesKept(db, t))

\* a rescan has just replaced the faces of an ok file whose family has a
\* facet value assigned
C39_Witness ==
  /\ last.op \in {"scanSource", "scanSource.file", "scanFilePath"}
  /\ last.file # null
  /\ last.file.outcome = "upsert"
  /\ last.file.was = "ok"
  /\ last.file.faces # << >>
  /\ \E a \in db.family_facet_values :
       a.family_id = familyNamed(db, last.file.faces[1].familyName).id

====
